---- MODULE Spec2Model ----
(***************************************************************************)
(* State-machine model of WooCommerceFIFUUploader                          *)
(* (src/woocommerce_fifu_uploader.py): the batch upload orchestrator       *)
(* (batch_process_products / process_batch and the helpers they call) and  *)
(* the taxonomy resolvers (get_or_create_category,                         *)
(* _get_or_create_brand_term_id).                                          *)
(*                                                                         *)
(* Two specifications share the variables:                                 *)
(*   Spec     one run of batch_process_products; the remote answers are    *)
(*            chosen nondeterministically at every remote call;            *)
(*   SpecTax  worker threads calling the two taxonomy resolvers            *)
(*            concurrently, one step per lock operation or remote call.    *)
(***************************************************************************)
EXTENDS Integers, Sequences, FiniteSets, TLC

(***************************************************************************)
(* Bounds of the model.                                                    *)
(***************************************************************************)
\* longest input DataFrame
MaxRows == 3
\* the batch_size argument of batch_process_products (the caller passes 100)
BatchSize == 2
\* chunk_size of the bulk create/update loops (25 in the source), scaled so
\* that a batch is split into more than one sub-chunk
ChunkSize == 1

\* Python's None: as a string value, as an id, as a URL, as a dictionary
None == "None"
NoId == 0
NoUrl == << >>

(***************************************************************************)
(* String conversions, tabulated on the strings the model uses.            *)
(***************************************************************************)
\* str.lower()
Lower(s) ==
  CASE s = "A1" -> "a1"
    [] s = "A2" -> "a2"
    [] s = "B1" -> "b1"
    [] s = "Acme" -> "acme"
    [] s = "Pumps" -> "pumps"
    [] s = "Valves" -> "valves"
    [] s = "Seals" -> "seals"
    [] s = "Bosch" -> "bosch"
    [] s = "Timken" -> "timken"
    [] OTHER -> s

\* str.strip()
Strip(s) ==
  CASE s = " Seals " -> "Seals"
    [] OTHER -> s

\* str.capitalize()
Capitalize(s) ==
  CASE s = "acme" -> "Acme"
    [] s = "pumps" -> "Pumps"
    [] OTHER -> s

(***************************************************************************)
(* Input rows (already adapted rows of the DataFrame).                     *)
(***************************************************************************)
Row(sku, cat, brand) == [SKU |-> sku, Category |-> cat, Brand |-> brand]

RowPool ==
  { Row("A1", "Pumps", ""),
    Row("A2", "", "acme"),
    Row("", "", "") }

RECURSIVE SeqsUpTo(_, _)
SeqsUpTo(S, n) ==
  IF n = 0 THEN { << >> }
  ELSE LET shorter == SeqsUpTo(S, n - 1)
       IN shorter \cup { Append(s, x) : s \in { t \in shorter : Len(t) = n - 1 }, x \in S }

Range(s) == { s[i] : i \in 1..Len(s) }

Min(a, b) == IF a < b THEN a ELSE b

\* the elements of sequence s that satisfy Test, in order
RECURSIVE SelectIdx(_, _)
SelectIdx(s, keep) ==
  IF s = << >> THEN << >>
  ELSE LET rest == SelectIdx(Tail(s), { k - 1 : k \in keep \ {1} })
       IN IF 1 \in keep THEN << Head(s) >> \o rest ELSE rest

(***************************************************************************)
(* Remote identifiers.  The remote chooses them; the model fixes one       *)
(* distinct value per purpose so that they can be told apart.              *)
(***************************************************************************)
\* id the bulk-create endpoint assigns to the product made from row i
NewProductId(i) == 100 + i

\* id of the product the single-SKU search returns for a SKU
RemoteProductId(sku) ==
  CASE sku = "A1" -> 71
    [] sku = "A2" -> 72
    [] sku = "B1" -> 77
    [] OTHER -> 79

\* URL the asset publisher returns for the image of a SKU
ImageUrl(sku) == << "products", sku >>

VARIABLES
  df,                        \* the input rows
  skip_existing,             \* mode flag: TRUE = skip-existing, FALSE = update-existing
  pc,                        \* position of the orchestrator thread
  stop_requested,
  existing_products_cache,   \* lowercased SKU -> product summary
  cache_loaded,
  category_cache,            \* lowercased category name -> term id
  brand_term_cache,          \* lowercased brand name -> term id
  batch_start,
  totals,                    \* run-level counters of batch_process_products
  frame,                     \* locals of the process_batch call in progress
  calls,                     \* the remote calls and diagnostics of the batch in progress
  events,                    \* run-level trace: listings, batch starts, progress, pauses
  result,                    \* the dictionary batch_process_products returned
  tpc,                       \* SpecTax: position of each resolver thread
  targ,                      \* SpecTax: [kind, name] each thread resolves
  tret,                      \* SpecTax: values returned so far, per [kind, name]
  lock_owner,                \* SpecTax: holder of each creation lock (0 = free)
  term_calls,                \* SpecTax: remote term calls issued
  sftp_connected,            \* SpecSftp: SFTPImageUploader.connected
  local_files,               \* SpecSftp: local file -> size in bytes
  remote_files,              \* SpecSftp: remote file name -> size in bytes
  last_uploads,              \* SpecSftp: the two most recent calls of upload_file
  ai,                        \* SpecAi: the AIDescriptionGenerator and its call_ai_api call
  warm                       \* SpecWarm: the pre-warm of the taxonomy caches at construction

vars == << df, skip_existing, pc, stop_requested, existing_products_cache,
           cache_loaded, category_cache, brand_term_cache, batch_start, totals,
           frame, calls, events, result, tpc, targ, tret, lock_owner, term_calls,
           sftp_connected, local_files, remote_files, last_uploads, ai,
           warm >>

taxVars == << tpc, targ, tret, lock_owner, term_calls >>

sftpVars == << sftp_connected, local_files, remote_files, last_uploads >>

aiVars == << ai >>

warmVars == << warm >>

EmptyMap == [x \in {} |-> None]
NoDict == EmptyMap

MapPut(m, k, v) == [x \in (DOMAIN m) \cup {k} |-> IF x = k THEN v ELSE m[x]]

(***************************************************************************)
(* Taxonomy Term Store: the answers the remote can give.                   *)
(***************************************************************************)
TermBase(name) ==
  CASE Lower(name) = "pumps" -> 10
    [] Lower(name) = "valves" -> 20
    [] Lower(name) = "acme" -> 40
    [] OTHER -> 90

\* id of the term an exact-name search match carries
SearchTermId(name) == TermBase(name) + 1
\* id of a freshly created term
CreatedTermId(name) == TermBase(name) + 3
\* the existing term ids a "term_exists" failure payload carries
ExistingTermIds(name) == << TermBase(name) + 2, TermBase(name) + 9 >>

\* search: a 200 answer with an exact case-insensitive name match, a 200 answer
\* without one, a non-success HTTP status, or a raised exception
TermSearchResps == { "match", "nomatch", "http_error", "exception" }
\* create: success, a 400 term_exists failure with or without embedded ids,
\* any other failure status, or a raised exception
TermCreateResps == { "created", "term_exists", "term_exists_noids", "fail", "exception" }

TaxResult(id, cache, searched, created) ==
  [id |-> id, cache |-> cache, searched |-> searched, created |-> created]

\* get_or_create_category, lines 513-545: the section run under
\* category_creation_lock after the second cache miss
CategoryLockedSection(cache, category_name, sresp, cresp) ==
  LET cache_key == Lower(category_name) IN
  IF sresp = "exception" THEN TaxResult(NoId, cache, TRUE, FALSE)
  ELSE IF sresp = "match"
  THEN TaxResult(SearchTermId(category_name),
                 MapPut(cache, cache_key, SearchTermId(category_name)), TRUE, FALSE)
  ELSE IF cresp = "created"
  THEN TaxResult(CreatedTermId(category_name),
                 MapPut(cache, cache_key, CreatedTermId(category_name)), TRUE, TRUE)
  ELSE TaxResult(NoId, cache, TRUE, TRUE)

\* get_or_create_category as one call
get_or_create_category(cache, category_name, sresp, cresp) ==
  IF category_name = "" THEN TaxResult(NoId, cache, FALSE, FALSE)
  ELSE IF Lower(category_name) \in DOMAIN cache
  THEN TaxResult(cache[Lower(category_name)], cache, FALSE, FALSE)
  ELSE CategoryLockedSection(cache, category_name, sresp, cresp)

\* _get_or_create_brand_term_id, lines 640-715: the section run under
\* brand_creation_lock after the second cache miss
BrandLockedSection(cache, brand_name, sresp, cresp) ==
  LET cache_key == Lower(brand_name) IN
  IF sresp \in { "exception", "http_error" } THEN TaxResult(NoId, cache, TRUE, FALSE)
  ELSE IF sresp = "match"
  THEN TaxResult(SearchTermId(brand_name),
                 MapPut(cache, cache_key, SearchTermId(brand_name)), TRUE, FALSE)
  ELSE IF cresp = "created"
  THEN TaxResult(CreatedTermId(brand_name),
                 MapPut(cache, cache_key, CreatedTermId(brand_name)), TRUE, TRUE)
  ELSE IF cresp = "term_exists"
  THEN TaxResult(ExistingTermIds(brand_name)[1],
                 MapPut(cache, cache_key, ExistingTermIds(brand_name)[1]), TRUE, TRUE)
  ELSE TaxResult(NoId, cache, TRUE, TRUE)

\* _get_or_create_brand_term_id as one call (brand_endpoint is always set:
\* _find_brand_endpoint falls back to 'product_brand')
get_or_create_brand_term_id(cache, brand_name, sresp, cresp) ==
  IF Lower(brand_name) \in DOMAIN cache
  THEN TaxResult(cache[Lower(brand_name)], cache, FALSE, FALSE)
  ELSE BrandLockedSection(cache, brand_name, sresp, cresp)

\* the remote answers a resolution can meet: none on a cache hit or an empty
\* name, and a create answer only when the search did not settle it
CategorySearchChoices(cache, category_name) ==
  IF category_name = "" \/ Lower(category_name) \in DOMAIN cache
  THEN { "unused" } ELSE TermSearchResps

CategoryCreateChoices(sresp) ==
  IF sresp \in { "nomatch", "http_error" } THEN TermCreateResps ELSE { "unused" }

BrandSearchChoices(cache, brand_name) ==
  IF brand_name = "" \/ Lower(brand_name) \in DOMAIN cache
  THEN { "unused" } ELSE TermSearchResps

BrandCreateChoices(sresp) ==
  IF sresp = "nomatch" THEN TermCreateResps ELSE { "unused" }

(***************************************************************************)
(* Payload assembly.                                                       *)
(***************************************************************************)
\* Mutation of create_product_data: a category or brand that could not be
\* resolved fails the row.
create_product_dataFailingUnresolved(i, row, category_id, brand_term_id) ==
  IF \/ row.Category # "" /\ category_id = NoId
     \/ row.Brand # "" /\ brand_term_id = NoId
  THEN [status |-> "error", data |-> NoDict]
  ELSE [status |-> "success",
        data |-> [row |-> i, sku |-> row.SKU, id |-> NoId,
                  categories |-> IF row.Category # "" THEN << category_id >> ELSE << >>,
                  brands |-> IF row.Brand # "" THEN << brand_term_id >> ELSE << >>]]

\* create_product_data: the payload built from row i of the DataFrame; "row"
\* tags the payload with the row it was built from
create_product_data(i, row, category_id, brand_term_id) ==
  [status |-> "success",
   data |-> [row |-> i,
             sku |-> row.SKU,
             id |-> NoId,
             categories |-> IF row.Category # "" /\ category_id # NoId
                            THEN << category_id >> ELSE << >>,
             brands |-> IF row.Brand # "" /\ brand_term_id # NoId
                        THEN << brand_term_id >> ELSE << >>]]

\* _prepare_product_data_task: ('error', message) for a row without SKU
prepare_product_data_task(i, row, category_id, brand_term_id) ==
  IF row.SKU = "" THEN [status |-> "error", data |-> NoDict]
  ELSE create_product_data(i, row, category_id, brand_term_id)

(***************************************************************************)
(* Existing-Product Cache.                                                 *)
(***************************************************************************)
Product(id, sku, brand) == [id |-> id, sku |-> sku, brand |-> brand]

\* what the paginated product listing can hold: a sequence of pages; brand is
\* the first option of the product's 'brand' attribute, None without one
Listings ==
  { << {} >>,
    << { Product(71, "A1", "Acme") } >>,
    << { Product(71, "A1", "Acme") },
       { Product(72, "A2", None), Product(77, "B1", "acme"), Product(79, "", None) } >> }

\* answer of one page request: a 200 answer with the products; a non-success
\* status whose body is a JSON object (the error format of the REST API); a
\* non-success status whose body is an empty JSON array; a raised exception
\* (transport error, or a body that is not JSON)
PageOutcomes == { "ok", "http_error", "http_error_array", "exception" }

\* lines 1074-1076: the lowercased Brand values of the DataFrame
BrandFilters(rows) == { Lower(rows[i].Brand) : i \in { j \in 1..Len(rows) : rows[j].Brand # "" } }

\* Mutation of Retained: the brand of the product is compared as written.
RetainedCaseSensitive(product, brand_filters) ==
  /\ Lower(product.sku) # ""
  /\ \/ brand_filters = {}
     \/ /\ product.brand # None
        /\ product.brand \in brand_filters

\* lines 779-793: does a listed product enter the cache
Retained(product, brand_filters) ==
  /\ Lower(product.sku) # ""
  /\ \/ brand_filters = {}
     \/ /\ product.brand # None
        /\ Lower(product.brand) \in brand_filters

\* lines 779-793: the products of the pages folded into the cache
FoldPages(page_products, brand_filters) ==
  LET kept == { pr \in page_products : Retained(pr, brand_filters) }
  IN [k \in { Lower(pr.sku) : pr \in kept } |->
        CHOOSE pr \in kept : Lower(pr.sku) = k]

\* what the fold loop meets for a page: the products of a 200 answer, nothing
\* for an empty array; the status of pages 2.. is never looked at (line 758)
PageProducts(listing, outcome, pg) ==
  IF outcome[pg] = "ok" THEN listing[pg] ELSE {}

\* Mutation of AlreadyLoaded: the cache is emptied before the flag is tested.
AlreadyLoadedClearing(cache) ==
  [ok |-> TRUE, cache |-> EmptyMap, loaded |-> TRUE, fetched |-> << >>]

\* lines 724-726: the cache is already built
AlreadyLoaded(cache) ==
  [ok |-> TRUE, cache |-> cache, loaded |-> TRUE, fetched |-> << >>]

\* load_all_existing_products: [ok, cache, loaded, pages fetched]
load_all_existing_products(loaded, cache, brand_filters, listing, outcome) ==
  LET all == [k \in 1..Len(listing) |-> k]
      later == 2..Len(listing)
      \* pages whose body is a JSON object: iterating it yields strings and
      \* product.get raises inside the fold loop
      objects == { pg \in later : outcome[pg] = "http_error" }
      \* pages folded before page pg (as_completed order; the listings of
      \* the model have at most two pages, so page 1 alone)
      before(pg) == 1..(pg - 1)
  IN
  IF loaded
  THEN AlreadyLoaded(cache)
  ELSE IF outcome[1] # "ok"
  THEN [ok |-> FALSE, cache |-> EmptyMap, loaded |-> FALSE, fetched |-> << 1 >>]
  ELSE IF \E pg \in later : outcome[pg] = "exception"
  THEN [ok |-> FALSE, cache |-> EmptyMap, loaded |-> FALSE, fetched |-> all]
  ELSE IF objects # {}
  THEN LET first == CHOOSE pg \in objects : \A q \in objects : pg <= q
       IN [ok |-> FALSE,
           cache |-> FoldPages(UNION { PageProducts(listing, outcome, q) : q \in before(first) },
                               brand_filters),
           loaded |-> FALSE, fetched |-> all]
  ELSE [ok |-> TRUE,
        cache |-> FoldPages(UNION { PageProducts(listing, outcome, q) : q \in 1..Len(listing) },
                            brand_filters),
        loaded |-> TRUE,
        fetched |-> all]

(***************************************************************************)
(* Spec: one run of batch_process_products.                                *)
(***************************************************************************)
ZeroTotals ==
  [processed_count |-> 0, new_count |-> 0, updated_count |-> 0,
   skipped_count |-> 0, error_count |-> 0]

NoFrame ==
  [rows |-> << >>, images_urls |-> EmptyMap, pending |-> {},
   skipped_count |-> 0, error_count |-> 0, initial_error_count |-> 0,
   products_to_process |-> << >>, i |-> 0,
   newly_created_products |-> << >>, products_to_update_data |-> << >>,
   api_errors_count |-> 0, lookup_pending |-> {},
   products_for_batch_update |-> << >>, updated_products |-> << >>]

\* _preload_categories_and_brands at construction: nothing loaded (the listing
\* failed or was empty) or the remote terms loaded
PreloadedCaches ==
  { [cat |-> EmptyMap, brand |-> EmptyMap],
    [cat |-> MapPut(EmptyMap, "pumps", SearchTermId("Pumps")),
     brand |-> MapPut(EmptyMap, "acme", SearchTermId("Acme"))] }

TaxIdle ==
  /\ tpc = << >>
  /\ targ = << >>
  /\ tret = {}
  /\ lock_owner = [category |-> 0, brand |-> 0]
  /\ term_calls = {}

\* no AIDescriptionGenerator exists
AiIdle == ai = [pc |-> "none"]

\* no SFTPImageUploader is at work
WarmIdle == warm = [pc |-> "none"]

SftpIdle ==
  /\ sftp_connected = FALSE
  /\ local_files = EmptyMap
  /\ remote_files = EmptyMap
  /\ last_uploads = << >>

Init ==
  /\ df \in SeqsUpTo(RowPool, MaxRows)
  /\ skip_existing \in BOOLEAN
  /\ pc = "upload"
  /\ stop_requested = FALSE
  /\ existing_products_cache = EmptyMap
  /\ cache_loaded = FALSE
  /\ \E pre \in PreloadedCaches :
       /\ category_cache = pre.cat
       /\ brand_term_cache = pre.brand
  /\ batch_start = 0
  /\ totals = ZeroTotals
  /\ frame = NoFrame
  /\ calls = << >>
  /\ events = << >>
  /\ result = NoDict
  /\ TaxIdle
  /\ SftpIdle
  /\ AiIdle
  /\ WarmIdle

total_products == Len(df)

\* Mutation of AfterCacheLoad: the failure of the cache build is ignored and
\* the batch loop is entered anyway.
AfterCacheLoadIgnoringFailure(ok) == "loop"

\* lines 1084-1094: where the run goes after the cache build
AfterCacheLoad(ok) == IF ok THEN "loop" ELSE "returned"

\* lines 1088-1094: the dictionary returned when the cache build failed
CacheFailureResult ==
  [success |-> FALSE, uploaded |-> 0, errors |-> 1, total |-> total_products]

\* how the preamble of upload_products can end: SFTP connected and the CSV
\* read and adapted; the SFTP connection refused; the CSV unreadable or not
\* adaptable (lines 931-962, 985-997)
UploadStartOutcomes == { "ok", "sftp_failed", "csv_error" }

\* Mutation of AfterConnect: the run goes on whatever the preamble met.
AfterConnectGoingOn(outcome) == "start"

\* lines 920-929 and 949-958: where upload_products goes after its preamble
AfterConnect(outcome) == IF outcome = "ok" THEN "start" ELSE "returned"

\* lines 922-928: the dictionary returned when the SFTP connection failed
SftpFailureResult ==
  [success |-> FALSE, uploaded |-> 0, errors |-> 0, total |-> 0]

\* lines 952-958 and 991-997: the dictionary returned when the CSV could not
\* be read or adapted
CsvFailureResult ==
  [success |-> FALSE, uploaded |-> 0, errors |-> 1, total |-> 0]

\* upload_products, lines 882-983: connect to the asset publisher, read the
\* CSV, hand the DataFrame to batch_process_products
UploadProductsStart ==
  /\ pc = "upload"
  /\ \E outcome \in UploadStartOutcomes :
       /\ pc' = AfterConnect(outcome)
       /\ events' = events
                    \o << [op |-> "sftp_connect", ok |-> outcome # "sftp_failed"] >>
                    \o IF outcome = "csv_error" THEN << [op |-> "sftp_disconnect"] >>
                       ELSE << >>
       /\ result' = IF AfterConnect(outcome) # "returned" THEN result
                     ELSE IF outcome = "sftp_failed" THEN SftpFailureResult
                     ELSE CsvFailureResult
  /\ UNCHANGED << df, skip_existing, stop_requested, existing_products_cache,
                  cache_loaded, category_cache, brand_term_cache, batch_start,
                  totals, frame, calls >>
  /\ UNCHANGED taxVars
  /\ UNCHANGED aiVars
  /\ UNCHANGED warmVars
  /\ UNCHANGED sftpVars

\* lines 736-756: the page requests a cache build issued, with their answers
ListRequests(fetched, outcome) ==
  [k \in 1..Len(fetched) |->
     [op |-> "list", page |-> fetched[k], ok |-> outcome[fetched[k]] = "ok"]]

\* batch_process_products, lines 1057-1098: counters zeroed, cache ensured
BatchProcessStart ==
  /\ pc = "start"
  /\ IF skip_existing
     THEN \E listing \in Listings : \E outcome \in [1..Len(listing) -> PageOutcomes] :
            LET r == load_all_existing_products(cache_loaded, existing_products_cache,
                                                BrandFilters(df), listing, outcome)
                listed == ListRequests(r.fetched, outcome)
            IN /\ existing_products_cache' = r.cache
               /\ cache_loaded' = r.loaded
               /\ pc' = AfterCacheLoad(r.ok)
               /\ IF AfterCacheLoad(r.ok) = "returned"
                  THEN /\ events' = events \o listed \o << [op |-> "sftp_disconnect"] >>
                       /\ result' = CacheFailureResult
                  ELSE /\ events' = events \o listed
                       /\ result' = result
     ELSE /\ existing_products_cache' = EmptyMap
          /\ cache_loaded' = TRUE
          /\ pc' = "loop"
          /\ UNCHANGED << events, result >>
  /\ totals' = ZeroTotals
  /\ UNCHANGED << df, skip_existing, stop_requested, category_cache, brand_term_cache,
                  batch_start, frame, calls >>
  /\ UNCHANGED taxVars
  /\ UNCHANGED aiVars
  /\ UNCHANGED warmVars
  /\ UNCHANGED sftpVars

\* stop_upload, lines 225-227 (called from another thread)
StopUpload ==
  /\ pc # "returned"
  /\ ~stop_requested
  /\ stop_requested' = TRUE
  /\ UNCHANGED << df, skip_existing, pc, existing_products_cache, cache_loaded,
                  category_cache, brand_term_cache, batch_start, totals, frame,
                  calls, result >>
  /\ UNCHANGED events
  /\ UNCHANGED taxVars
  /\ UNCHANGED aiVars
  /\ UNCHANGED warmVars
  /\ UNCHANGED sftpVars

\* Mutation of BatchRows: the slice starts at the first row, so that a batch
\* takes the rows of the batches before it again.
BatchRowsFromFirst(start) ==
  [k \in 1..Min(start + BatchSize, total_products) |-> k]

\* lines 1106-1107: df.iloc[batch_start:batch_end], as row numbers
BatchRows(start) ==
  [k \in 1..(Min(start + BatchSize, total_products) - start) |-> start + k]

\* lines 1101-1109: top of the per-batch loop
BatchTop ==
  /\ pc = "loop"
  /\ IF stop_requested \/ batch_start >= total_products
     THEN /\ pc' = "summary"
          /\ frame' = frame
          /\ events' = events
     ELSE /\ pc' = "images"
          /\ frame' = [NoFrame EXCEPT !.rows = BatchRows(batch_start)]
          /\ events' = Append(events, [op |-> "batch", start |-> batch_start])
  /\ UNCHANGED << df, skip_existing, stop_requested, existing_products_cache,
                  cache_loaded, category_cache, brand_term_cache, batch_start,
                  totals, calls, result >>
  /\ UNCHANGED taxVars
  /\ UNCHANGED aiVars
  /\ UNCHANGED warmVars
  /\ UNCHANGED sftpVars

\* Mutation of ImageTasks: the SKUs already met are not remembered.
RECURSIVE ImageTasksRepeating(_, _)
ImageTasksRepeating(rows, seen) ==
  IF rows = << >> THEN << >>
  ELSE LET sku == df[Head(rows)].SKU
       IN IF sku # ""
          THEN << sku >> \o ImageTasksRepeating(Tail(rows), seen)
          ELSE ImageTasksRepeating(Tail(rows), seen)

\* str(row.get('SKU', '')).strip() of the rows of the batch, first occurrence
\* of each non-empty SKU (lines 1233-1240)
RECURSIVE ImageTasks(_, _)
ImageTasks(rows, seen) ==
  IF rows = << >> THEN << >>
  ELSE LET sku == df[Head(rows)].SKU
       IN IF sku # "" /\ sku \notin seen
          THEN << sku >> \o ImageTasks(Tail(rows), seen \cup { sku })
          ELSE ImageTasks(Tail(rows), seen)

\* process_batch, lines 1229-1255: one _upload_image_task per distinct SKU;
\* a task returns a URL or None (no file, connect or upload failure, exception)
UploadImages ==
  /\ pc = "images"
  /\ LET tasks == ImageTasks(frame.rows, {})
     IN \E got \in SUBSET Range(tasks) :
          /\ frame' = [frame EXCEPT
                         !.images_urls = [sku \in got |-> ImageUrl(sku)],
                         !.pending = IF skip_existing THEN {} ELSE Range(frame.rows)]
          /\ calls' = calls \o [k \in 1..Len(tasks) |->
                                  [op |-> "image", sku |-> tasks[k],
                                   url |-> IF tasks[k] \in got THEN ImageUrl(tasks[k])
                                           ELSE NoUrl]]
  /\ pc' = IF skip_existing THEN "filter" ELSE "prepare"
  /\ UNCHANGED << df, skip_existing, stop_requested, existing_products_cache,
                  cache_loaded, category_cache, brand_term_cache, batch_start,
                  totals, result >>
  /\ UNCHANGED events
  /\ UNCHANGED taxVars
  /\ UNCHANGED aiVars
  /\ UNCHANGED warmVars
  /\ UNCHANGED sftpVars

\* Mutation of InCache: the SKU is looked up as written, not lowercased.
InCacheCaseSensitive(cache, sku) == sku \in DOMAIN cache

\* line 1276: self.existing_products_cache.get(sku.lower())
InCache(cache, sku) == Lower(sku) \in DOMAIN cache

\* process_batch, lines 1260-1285: skip mode drops the rows already in the cache
SkipFilter ==
  /\ pc = "filter"
  /\ LET rows == Range(frame.rows)
         nosku == { i \in rows : df[i].SKU = "" }
         cached == { i \in rows \ nosku : InCache(existing_products_cache, df[i].SKU) }
         rows_to_process == (rows \ nosku) \ cached
     IN /\ frame' = [frame EXCEPT !.error_count = Cardinality(nosku),
                                  !.skipped_count = Cardinality(cached),
                                  !.pending = rows_to_process]
        /\ pc' = IF rows_to_process = {} THEN "create" ELSE "prepare"
  /\ UNCHANGED << df, skip_existing, stop_requested, existing_products_cache,
                  cache_loaded, category_cache, brand_term_cache, batch_start,
                  totals, calls, result >>
  /\ UNCHANGED events
  /\ UNCHANGED taxVars
  /\ UNCHANGED aiVars
  /\ UNCHANGED warmVars
  /\ UNCHANGED sftpVars

\* Mutation of StageJoined: the stage is left at the first result.
StageJoinedAtFirstResult(pending, task) == TRUE

\* the `with ThreadPoolExecutor(...)` blocks of lines 1290-1305, 1329-1344 and
\* 1412-1427 end when the last of their futures has completed: this task was
\* the only one still pending
StageJoined(pending, task) == pending = { task }

\* lines 1346-1348: update mode returns early when no payload was assembled
AfterPrepare(products) ==
  IF ~skip_existing /\ products = << >> THEN "tally" ELSE "create"

\* process_batch, lines 1286-1305 and 1328-1344: one _prepare_product_data_task
\* completes (as_completed yields the tasks in any order); create_product_data
\* resolves the category, then the brand
PrepareRow ==
  /\ pc = "prepare"
  /\ \E i \in frame.pending :
     \E cs \in CategorySearchChoices(category_cache,
                                     IF df[i].SKU = "" THEN "" ELSE df[i].Category) :
     \E cc \in CategoryCreateChoices(cs) :
     \E bs \in BrandSearchChoices(brand_term_cache,
                                  IF df[i].SKU = "" THEN "" ELSE df[i].Brand) :
     \E bc \in BrandCreateChoices(bs) :
       LET row == df[i]
           cat == IF row.SKU = "" THEN TaxResult(NoId, category_cache, FALSE, FALSE)
                  ELSE get_or_create_category(category_cache, row.Category, cs, cc)
           brand == IF row.SKU = "" \/ row.Brand = ""
                    THEN TaxResult(NoId, brand_term_cache, FALSE, FALSE)
                    ELSE get_or_create_brand_term_id(brand_term_cache,
                                                     Capitalize(row.Brand), bs, bc)
           task == prepare_product_data_task(i, row, cat.id, brand.id)
           products == IF task.status = "success"
                       THEN Append(frame.products_to_process, task.data)
                       ELSE frame.products_to_process
           failed == IF task.status = "success" THEN 0 ELSE 1
       IN /\ category_cache' = cat.cache
          /\ brand_term_cache' = brand.cache
          /\ frame' = [frame EXCEPT
                         !.pending = @ \ { i },
                         !.products_to_process = products,
                         !.error_count = IF skip_existing THEN @ + failed ELSE @,
                         !.initial_error_count = IF skip_existing THEN @ ELSE @ + failed]
          /\ pc' = IF StageJoined(frame.pending, i) THEN AfterPrepare(products)
                   ELSE "prepare"
  /\ UNCHANGED << df, skip_existing, stop_requested, existing_products_cache,
                  cache_loaded, batch_start, totals, calls, result >>
  /\ UNCHANGED events
  /\ UNCHANGED taxVars
  /\ UNCHANGED aiVars
  /\ UNCHANGED warmVars
  /\ UNCHANGED sftpVars

(***************************************************************************)
(* Product Repository: the answers of the bulk endpoints.                  *)
(***************************************************************************)
\* a whole sub-chunk request: answered, refused with an HTTP error status, or
\* ended by a timeout or transport exception
ChunkOutcomes == { "ok", "http_error", "exception" }

ApiError(code, message) == [code |-> code, message |-> message]

\* the per-item errors the bulk-create endpoint answers with when the SKU is
\* already taken, and when something else is wrong
DuplicateErrors ==
  { ApiError("woocommerce_rest_product_sku_already_exists", "Invalid or duplicated SKU."),
    ApiError("other_code", "The SKU is already present in the lookup table") }

OtherErrors == { ApiError("woocommerce_rest_invalid", "Invalid parameter") }

\* per-item answers to a create: a product with an id, an error, or neither;
\* kind says what the remote means, error is what it sends
CreateItemResults ==
  { [kind |-> "id"], [kind |-> "neither"] } \cup
  { [kind |-> "duplicate", error |-> e] : e \in DuplicateErrors } \cup
  { [kind |-> "other", error |-> e] : e \in OtherErrors }

\* what the call trace keeps of the per-item answers
Kinds(results) == [k \in 1..Len(results) |-> results[k].kind]

\* the substring tests of line 1377, tabulated on the messages of CreateErrors
MessageSaysDuplicate(message) ==
  message = "The SKU is already present in the lookup table"

\* Mutation of IsDuplicateSkuError: every per-item error is taken for a
\* duplicate SKU.
IsDuplicateSkuErrorAlways(error) == TRUE

\* line 1377: does a per-item create error indicate a duplicate SKU
IsDuplicateSkuError(error) ==
  \/ error.code \in { "woocommerce_rest_product_sku_already_exists", "product_invalid_sku" }
  \/ MessageSaysDuplicate(error.message)

\* the product object of a bulk answer: the id and the SKU the remote stores
ResultProduct(id, sku) == [id |-> id, sku |-> sku]

\* Mutation of Chunk: a sub-chunk starts on the last item of the one before it.
ChunkOverlapping(products, i) ==
  SubSeq(products, IF i = 0 THEN 1 ELSE i, Min(i + ChunkSize, Len(products)))

\* lines 1359-1360 and 1469-1470: products[i:i + chunk_size]
Chunk(products, i) == SubSeq(products, i + 1, Min(i + ChunkSize, Len(products)))

\* lines 1367-1388: update mode files every answered item of a sub-chunk
RECURSIVE ClassifyCreated(_, _, _)
ClassifyCreated(chunk, results, acc) ==
  IF chunk = << >> THEN acc
  ELSE LET item == Head(chunk)
           res == Head(results)
           next ==
             IF res.kind = "id"
             THEN [acc EXCEPT !.created = Append(@, ResultProduct(NewProductId(item.row), item.sku))]
             ELSE IF "error" \in DOMAIN res /\ IsDuplicateSkuError(res.error)
             THEN [acc EXCEPT !.to_update = Append(@, item)]
             ELSE [acc EXCEPT !.api_errors = @ + 1]
       IN ClassifyCreated(Tail(chunk), Tail(results), next)

\* Mutation of AfterCreate: a stop request cuts the batch short after the
\* create loop.
AfterCreateCancelledByStop(created, to_update) ==
  IF stop_requested THEN "tally"
  ELSE IF created # << >> THEN "assign_new"
  ELSE IF ~skip_existing /\ to_update # << >> THEN "lookup"
  ELSE "tally"

\* where process_batch goes once the create loop has ended
AfterCreate(created, to_update) ==
  IF created # << >> THEN "assign_new"
  ELSE IF ~skip_existing /\ to_update # << >> THEN "lookup"
  ELSE "tally"

\* lines 1485-1497: skip mode keeps the answered items that carry an id
RECURSIVE CreatedItems(_, _)
CreatedItems(chunk, results) ==
  IF chunk = << >> THEN << >>
  ELSE IF Head(results).kind = "id"
  THEN << ResultProduct(NewProductId(Head(chunk).row), Head(chunk).sku) >>
       \o CreatedItems(Tail(chunk), Tail(results))
  ELSE CreatedItems(Tail(chunk), Tail(results))

\* Mutation of CacheAfterCreate: the products created are stored in the cache
\* under their lowercased SKU.
RECURSIVE CacheAfterCreateStoring(_, _)
CacheAfterCreateStoring(cache, created) ==
  IF created = << >> THEN cache
  ELSE CacheAfterCreateStoring(
         MapPut(cache, Lower(Head(created).sku),
                [sku |-> Head(created).sku, brand |-> "", id |-> Head(created).id]),
         Tail(created))

\* batch_create_products, lines 1485-1497, and process_batch, lines 1308-1320:
\* the products created are appended to successful_creations and counted;
\* nothing is stored in existing_products_cache
CacheAfterCreate(cache, created) == cache

\* batch_create_products, lines 1469-1507: one pass of the sub-chunk loop in
\* skip mode
BatchCreateChunk ==
  /\ pc = "create"
  /\ skip_existing
  /\ frame.i < Len(frame.products_to_process)
  /\ LET chunk == Chunk(frame.products_to_process, frame.i) IN
     \E outcome \in ChunkOutcomes :
     \E results \in IF outcome = "ok" THEN [1..Len(chunk) -> CreateItemResults]
                    ELSE { << >> } :
       LET created == IF outcome = "ok"
                      THEN frame.newly_created_products \o CreatedItems(chunk, results)
                      ELSE frame.newly_created_products
       IN /\ frame' = [frame EXCEPT !.i = @ + ChunkSize,
                                    !.newly_created_products = created]
          /\ existing_products_cache' = CacheAfterCreate(existing_products_cache, created)
          /\ calls' = Append(calls, [op |-> "create", items |-> chunk,
                                     ok |-> outcome = "ok", results |-> Kinds(results)])
          /\ pc' = IF frame.i + ChunkSize >= Len(frame.products_to_process)
                   THEN AfterCreate(created, << >>)
                   ELSE "create"
  /\ UNCHANGED << df, skip_existing, stop_requested,
                  cache_loaded, category_cache, brand_term_cache, batch_start,
                  totals, result >>
  /\ UNCHANGED events
  /\ UNCHANGED taxVars
  /\ UNCHANGED aiVars
  /\ UNCHANGED warmVars
  /\ UNCHANGED sftpVars

\* Mutation of ChunkFailed: the items of a failed sub-chunk are not counted.
ChunkFailedUncounted(acc, chunk) == acc

\* lines 1389-1398: a create sub-chunk refused as a whole, timed out or
\* raised: all its items are errors
ChunkFailed(acc, chunk) == [acc EXCEPT !.api_errors = @ + Len(chunk)]

\* process_batch, lines 1359-1398: one pass of the sub-chunk loop in update mode
CreateOrClassifyChunk ==
  /\ pc = "create"
  /\ ~skip_existing
  /\ frame.i < Len(frame.products_to_process)
  /\ LET chunk == Chunk(frame.products_to_process, frame.i) IN
     \E outcome \in ChunkOutcomes :
     \E results \in IF outcome = "ok" THEN [1..Len(chunk) -> CreateItemResults]
                    ELSE { << >> } :
       LET acc0 == [created |-> frame.newly_created_products,
                    to_update |-> frame.products_to_update_data,
                    api_errors |-> frame.api_errors_count]
           acc == IF outcome = "ok"
                  THEN ClassifyCreated(chunk, results, acc0)
                  ELSE ChunkFailed(acc0, chunk)
       IN /\ frame' = [frame EXCEPT
                         !.i = @ + ChunkSize,
                         !.newly_created_products = acc.created,
                         !.products_to_update_data = acc.to_update,
                         !.api_errors_count = acc.api_errors,
                         !.lookup_pending = 1..Len(acc.to_update)]
          /\ calls' = Append(calls, [op |-> "create", items |-> chunk,
                                     ok |-> outcome = "ok", results |-> Kinds(results)])
          /\ pc' = IF frame.i + ChunkSize >= Len(frame.products_to_process)
                   THEN AfterCreate(acc.created, acc.to_update)
                   ELSE "create"
  /\ UNCHANGED << df, skip_existing, stop_requested, existing_products_cache,
                  cache_loaded, category_cache, brand_term_cache, batch_start,
                  totals, result >>
  /\ UNCHANGED events
  /\ UNCHANGED taxVars
  /\ UNCHANGED aiVars
  /\ UNCHANGED warmVars
  /\ UNCHANGED sftpVars

\* lines 1460-1461: batch_create_products of an empty list returns at once
CreateNothing ==
  /\ pc = "create"
  /\ frame.products_to_process = << >>
  /\ pc' = "tally"
  /\ UNCHANGED << df, skip_existing, stop_requested, existing_products_cache,
                  cache_loaded, category_cache, brand_term_cache, batch_start,
                  totals, frame, calls, result >>
  /\ UNCHANGED events
  /\ UNCHANGED taxVars
  /\ UNCHANGED aiVars
  /\ UNCHANGED warmVars
  /\ UNCHANGED sftpVars

(***************************************************************************)
(* Secondary image assignment.                                             *)
(***************************************************************************)
\* Mutation of ShouldAssign: the image URL is not tested.
ShouldAssignWithoutUrl(product, images_urls) ==
  /\ product.id # NoId
  /\ product.sku # ""

\* line 1635: is set_external_image submitted for a processed product
ShouldAssign(product, images_urls) ==
  /\ product.id # NoId
  /\ product.sku # ""
  /\ product.sku \in DOMAIN images_urls

\* lines 1629-1637: the processed products set_external_image is submitted for
AssignSubjects(processed_products, images_urls) ==
  SelectIdx(processed_products,
            { k \in 1..Len(processed_products) :
                ShouldAssign(processed_products[k], images_urls) })

\* Mutation of AssignCalls: every product gets the URL of one and the same
\* entry of images_urls.
AssignCallsOneUrl(processed_products, images_urls, failing) ==
  LET subject == AssignSubjects(processed_products, images_urls)
  IN [k \in 1..Len(subject) |->
        [op |-> "assign", id |-> subject[k].id,
         url |-> images_urls[CHOOSE sku \in DOMAIN images_urls : TRUE],
         ok |-> subject[k].id \notin failing]]

\* _set_external_images_in_parallel with set_external_image (lines 1575-1648):
\* the calls issued for a list of processed products; each call succeeds or
\* fails (non-200 answer, missing credentials, exception)
AssignCalls(processed_products, images_urls, failing) ==
  LET subject == AssignSubjects(processed_products, images_urls)
  IN [k \in 1..Len(subject) |->
        [op |-> "assign", id |-> subject[k].id,
         url |-> IF subject[k].sku \in DOMAIN images_urls
                 THEN images_urls[subject[k].sku] ELSE NoUrl,
         ok |-> subject[k].id \notin failing]]

AssignIds(processed_products, images_urls) ==
  { p.id : p \in Range(AssignSubjects(processed_products, images_urls)) }

\* lines 1311-1312 and 1401-1403: images of the newly created products
SetImagesNew ==
  /\ pc = "assign_new"
  /\ \E failing \in SUBSET AssignIds(frame.newly_created_products, frame.images_urls) :
       calls' = calls \o AssignCalls(frame.newly_created_products, frame.images_urls, failing)
  /\ pc' = AfterCreate(<< >>, frame.products_to_update_data)
  /\ UNCHANGED << df, skip_existing, stop_requested, existing_products_cache,
                  cache_loaded, category_cache, brand_term_cache, batch_start,
                  totals, frame, result >>
  /\ UNCHANGED events
  /\ UNCHANGED taxVars
  /\ UNCHANGED aiVars
  /\ UNCHANGED warmVars
  /\ UNCHANGED sftpVars

(***************************************************************************)
(* Update path of update-existing mode.                                    *)
(***************************************************************************)
\* answers of the single-SKU search: a product, an empty list, or a failure
\* (non-200 status or exception, both swallowed)
SearchOutcomes == { "found", "empty", "error" }

\* find_existing_product_by_sku, lines 803-830
find_existing_product_by_sku(sku, outcome) ==
  IF sku = "" THEN NoDict
  ELSE IF outcome = "found" THEN ResultProduct(RemoteProductId(sku), sku)
  ELSE NoDict

\* Mutation of LookupStep: an item whose search returned no id is sent to the
\* batch update all the same.
LookupStepKeepingGhost(acc, original_data, existing_product) ==
  [acc EXCEPT !.for_update =
     Append(@, [original_data EXCEPT
                  !.id = IF "id" \in DOMAIN existing_product
                         THEN existing_product.id ELSE NoId])]

\* lines 1415-1428: file one looked-up item; a product with an id goes to the
\* batch update, anything else is the ghost-SKU diagnostic and an error
LookupStep(acc, original_data, existing_product) ==
  IF DOMAIN existing_product # {} /\ "id" \in DOMAIN existing_product
  THEN [acc EXCEPT !.for_update = Append(@, [original_data EXCEPT !.id = existing_product.id])]
  ELSE [acc EXCEPT !.api_errors = @ + 1,
                   !.log = << [op |-> "ghost", row |-> original_data.row,
                               sku |-> original_data.sku] >>]

\* process_batch, lines 1412-1428: one find_existing_product_by_sku future
\* completes (in any order)
FindExisting ==
  /\ pc = "lookup"
  /\ \E k \in frame.lookup_pending : \E outcome \in SearchOutcomes :
       LET original_data == frame.products_to_update_data[k]
           existing_product == find_existing_product_by_sku(original_data.sku, outcome)
           acc == LookupStep([for_update |-> frame.products_for_batch_update,
                              api_errors |-> frame.api_errors_count, log |-> << >>],
                             original_data, existing_product)
       IN /\ frame' = [frame EXCEPT
                         !.lookup_pending = @ \ { k },
                         !.products_for_batch_update = acc.for_update,
                         !.api_errors_count = acc.api_errors,
                         !.i = 0]
          /\ calls' = calls \o << [op |-> "search", row |-> original_data.row,
                                   sku |-> original_data.sku,
                                   returned |-> existing_product] >>
                            \o acc.log
          /\ pc' = IF ~StageJoined(frame.lookup_pending, k) THEN "lookup"
                   ELSE IF acc.for_update # << >> THEN "update"
                   ELSE "tally"
  /\ UNCHANGED << df, skip_existing, stop_requested, existing_products_cache,
                  cache_loaded, category_cache, brand_term_cache, batch_start,
                  totals, result >>
  /\ UNCHANGED events
  /\ UNCHANGED taxVars
  /\ UNCHANGED aiVars
  /\ UNCHANGED warmVars
  /\ UNCHANGED sftpVars

\* Mutation of PopSku: the sku field stays in the update payload.
PopSkuKeepingSku(item) == item

\* lines 1539-1540: item.pop('sku', None)
PopSku(item) == [item EXCEPT !.sku = None]

UpdateItemResults == { "updated", "error" }

\* lines 1549-1555: the answered items without an error are the updated ones
RECURSIVE UpdatedItems(_, _)
UpdatedItems(chunk, results) ==
  IF chunk = << >> THEN << >>
  ELSE IF Head(results) = "updated"
  THEN << ResultProduct(Head(chunk).id, df[Head(chunk).row].SKU) >>
       \o UpdatedItems(Tail(chunk), Tail(results))
  ELSE UpdatedItems(Tail(chunk), Tail(results))

\* batch_update_products, lines 1531-1570: one pass of the sub-chunk loop
BatchUpdateChunk ==
  /\ pc = "update"
  /\ LET n == Len(frame.products_for_batch_update)
         hi == Min(frame.i + ChunkSize, n)
         chunk == [k \in 1..(hi - frame.i) |->
                     PopSku(frame.products_for_batch_update[frame.i + k])]
     IN \E outcome \in ChunkOutcomes :
        \E results \in IF outcome = "ok" THEN [1..Len(chunk) -> UpdateItemResults]
                       ELSE { << >> } :
          LET updated == IF outcome = "ok"
                         THEN frame.updated_products \o UpdatedItems(chunk, results)
                         ELSE frame.updated_products
          IN /\ frame' = [frame EXCEPT
                            !.i = @ + ChunkSize,
                            !.products_for_batch_update =
                               [k \in 1..n |-> IF k > frame.i /\ k <= hi
                                               THEN chunk[k - frame.i] ELSE @[k]],
                            !.updated_products = updated]
             /\ calls' = Append(calls, [op |-> "update", items |-> chunk,
                                        ok |-> outcome = "ok", results |-> results])
             /\ pc' = IF hi < n THEN "update"
                      ELSE IF updated # << >> THEN "assign_upd"
                      ELSE "tally"
  /\ UNCHANGED << df, skip_existing, stop_requested, existing_products_cache,
                  cache_loaded, category_cache, brand_term_cache, batch_start,
                  totals, result >>
  /\ UNCHANGED events
  /\ UNCHANGED taxVars
  /\ UNCHANGED aiVars
  /\ UNCHANGED warmVars
  /\ UNCHANGED sftpVars

\* lines 1433-1434: images of the updated products
SetImagesUpdated ==
  /\ pc = "assign_upd"
  /\ \E failing \in SUBSET AssignIds(frame.updated_products, frame.images_urls) :
       calls' = calls \o AssignCalls(frame.updated_products, frame.images_urls, failing)
  /\ pc' = "tally"
  /\ UNCHANGED << df, skip_existing, stop_requested, existing_products_cache,
                  cache_loaded, category_cache, brand_term_cache, batch_start,
                  totals, frame, result >>
  /\ UNCHANGED events
  /\ UNCHANGED taxVars
  /\ UNCHANGED aiVars
  /\ UNCHANGED warmVars
  /\ UNCHANGED sftpVars

(***************************************************************************)
(* Tallies.                                                                *)
(***************************************************************************)
\* lines 1308-1320: the dictionary process_batch returns in skip mode
SkipBatchResult(f) ==
  [processed |-> Len(f.newly_created_products),
   new |-> Len(f.newly_created_products),
   updated |-> 0,
   skipped |-> f.skipped_count,
   errors |-> f.error_count
              + (Len(f.products_to_process) - Len(f.newly_created_products))]

\* lines 1346-1348 and 1436-1448: the dictionary process_batch returns in
\* update mode
UpdateBatchResult(f) ==
  [processed |-> Len(f.newly_created_products) + Len(f.updated_products),
   new |-> Len(f.newly_created_products),
   updated |-> Len(f.updated_products),
   skipped |-> 0,
   errors |-> f.initial_error_count + f.api_errors_count
              + (Len(f.products_to_update_data) - Len(f.updated_products))]

\* Mutation of BatchResult: every failed image assignment is counted as an
\* error.
BatchResultCountingAssignFailures(f) ==
  LET base == IF skip_existing THEN SkipBatchResult(f) ELSE UpdateBatchResult(f)
      failed == Cardinality({ k \in 1..Len(calls) :
                                calls[k].op = "assign" /\ ~calls[k].ok })
  IN [base EXCEPT !.errors = @ + failed]

\* process_batch returns the dictionary of the mode
BatchResult(f) == IF skip_existing THEN SkipBatchResult(f) ELSE UpdateBatchResult(f)

\* time.sleep(2.0), line 1141: the length of the pause in seconds
PauseSeconds == 2

\* Mutation of PauseAfter: a pause follows every batch.
PauseAfterEveryBatch(batch_end) == TRUE

\* line 1139: a pause follows the batch unless it reached the end of the input
PauseAfter(batch_end) == batch_end < total_products

\* Mutation of LoopTail: the end of the batch is not clipped to the number of
\* rows.
LoopTailUnclipped(start) ==
  LET batch_end == start + BatchSize
  IN << [op |-> "progress", current |-> batch_end, total |-> total_products] >>
     \o IF PauseAfter(batch_end)
        THEN << [op |-> "sleep", seconds |-> PauseSeconds] >> ELSE << >>

\* lines 1134-1141: the progress callback and the pause that end a pass of
\* the per-batch loop
LoopTail(start) ==
  LET batch_end == Min(start + BatchSize, total_products)
  IN << [op |-> "progress", current |-> batch_end, total |-> total_products] >>
     \o IF PauseAfter(batch_end)
        THEN << [op |-> "sleep", seconds |-> PauseSeconds] >> ELSE << >>

\* batch_process_products, lines 1121-1141: process_batch has returned; fold
\* its counters, report progress, pause before the next batch
BatchReturn ==
  /\ pc = "tally"
  /\ LET batch_result == BatchResult(frame)
     IN totals' = [processed_count |-> totals.processed_count + batch_result.processed,
                   new_count |-> totals.new_count + batch_result.new,
                   updated_count |-> totals.updated_count + batch_result.updated,
                   skipped_count |-> totals.skipped_count + batch_result.skipped,
                   error_count |-> totals.error_count + batch_result.errors]
  /\ events' = events \o LoopTail(batch_start)
  /\ batch_start' = batch_start + BatchSize
  /\ frame' = NoFrame
  /\ calls' = << >>
  /\ pc' = "loop"
  /\ UNCHANGED << df, skip_existing, stop_requested, existing_products_cache,
                  cache_loaded, category_cache, brand_term_cache, result >>
  /\ UNCHANGED taxVars
  /\ UNCHANGED aiVars
  /\ UNCHANGED warmVars
  /\ UNCHANGED sftpVars

\* the stages of process_batch
InBatch ==
  { "images", "filter", "prepare", "create", "assign_new", "lookup", "update",
    "assign_upd" }

\* Mutation of ExceptionErrors: the rows of a batch that raised are not counted.
ExceptionErrorsUncounted(rows) == 0

\* line 1132: error_count += len(batch_df)
ExceptionErrors(rows) == Len(rows)

\* batch_process_products, lines 1130-1141: process_batch raised (a thread pool
\* that cannot start, an answer of an unexpected shape); the exception is
\* absorbed, the rows of the batch are counted as errors and the loop goes on
BatchRaises ==
  /\ pc \in InBatch
  /\ totals' = [totals EXCEPT !.error_count = @ + ExceptionErrors(frame.rows)]
  /\ events' = events \o << [op |-> "raised", start |-> batch_start] >>
                      \o LoopTail(batch_start)
  /\ batch_start' = batch_start + BatchSize
  /\ frame' = NoFrame
  /\ calls' = << >>
  /\ pc' = "loop"
  /\ UNCHANGED << df, skip_existing, stop_requested, existing_products_cache,
                  cache_loaded, category_cache, brand_term_cache, result >>
  /\ UNCHANGED taxVars
  /\ UNCHANGED aiVars
  /\ UNCHANGED warmVars
  /\ UNCHANGED sftpVars

\* batch_process_products, lines 1143-1163: the dictionary returned
Finish ==
  /\ pc = "summary"
  /\ result' = [success |-> totals.error_count = 0,
                uploaded |-> totals.processed_count,
                new |-> totals.new_count,
                updated |-> totals.updated_count,
                skipped |-> totals.skipped_count,
                errors |-> totals.error_count,
                total |-> total_products]
  /\ pc' = "returned"
  /\ UNCHANGED << df, skip_existing, stop_requested, existing_products_cache,
                  cache_loaded, category_cache, brand_term_cache, batch_start,
                  totals, frame, calls >>
  /\ UNCHANGED events
  /\ UNCHANGED taxVars
  /\ UNCHANGED aiVars
  /\ UNCHANGED warmVars
  /\ UNCHANGED sftpVars

Next ==
  \/ UploadProductsStart
  \/ BatchProcessStart
  \/ StopUpload
  \/ BatchTop
  \/ UploadImages
  \/ SkipFilter
  \/ PrepareRow
  \/ BatchCreateChunk
  \/ CreateOrClassifyChunk
  \/ CreateNothing
  \/ SetImagesNew
  \/ FindExisting
  \/ BatchUpdateChunk
  \/ SetImagesUpdated
  \/ BatchReturn
  \/ BatchRaises
  \/ Finish

Spec == Init /\ [][Next]_vars

(***************************************************************************)
(* SpecTax: threads resolving taxonomy terms concurrently.                 *)
(***************************************************************************)
\* worker threads of the payload-assembly pool
NumTaxWorkers == 2
\* resolve calls each thread makes
MaxResolves == 2

TaxWorkers == 1..NumTaxWorkers

\* what a thread can be asked to resolve
TaxTargets ==
  { [kind |-> "category", name |-> "Pumps"],
    [kind |-> "brand", name |-> "Acme"] }

InitTax ==
  /\ df = << >>
  /\ skip_existing = TRUE
  /\ pc = "start"
  /\ stop_requested = FALSE
  /\ existing_products_cache = EmptyMap
  /\ cache_loaded = FALSE
  /\ category_cache \in { pre.cat : pre \in PreloadedCaches }
  /\ brand_term_cache \in { pre.brand : pre \in PreloadedCaches }
  /\ batch_start = 0
  /\ totals = ZeroTotals
  /\ frame = NoFrame
  /\ calls = << >>
  /\ events = << >>
  /\ result = NoDict
  /\ tpc = [w \in TaxWorkers |-> "idle"]
  /\ targ = [w \in TaxWorkers |-> [kind |-> "category", name |-> "Pumps", done |-> 0]]
  /\ tret = {}
  /\ lock_owner = [category |-> 0, brand |-> 0]
  /\ term_calls = {}
  /\ SftpIdle
  /\ AiIdle
  /\ WarmIdle

orchVars == << df, skip_existing, pc, stop_requested, existing_products_cache,
               cache_loaded, batch_start, totals, frame, calls, events, result >>

TermCache(kind) == IF kind = "category" THEN category_cache ELSE brand_term_cache

\* remote calls of one sort issued so far for a term
TermCallCount(op, kind, key) ==
  Cardinality({ c \in term_calls : c.op = op /\ c.kind = kind /\ c.key = key })

\* a resolver returns id to thread w
Returned(w, id) ==
  /\ tret' = tret \cup { [kind |-> targ[w].kind, key |-> Lower(targ[w].name), id |-> id] }
  /\ targ' = [targ EXCEPT ![w].done = @ + 1]
  /\ tpc' = [tpc EXCEPT ![w] = "idle"]

\* Mutation of Released: the lock is kept on leaving the with-block.
ReleasedNot(w) == lock_owner' = lock_owner

\* with-block exit: the lock of the kind is released
Released(w) == lock_owner' = [lock_owner EXCEPT ![targ[w].kind] = 0]

SetCache(kind, cache) ==
  IF kind = "category"
  THEN category_cache' = cache /\ brand_term_cache' = brand_term_cache
  ELSE brand_term_cache' = cache /\ category_cache' = category_cache

\* create_product_data, lines 420-428: a thread calls one of the resolvers
TaxCall(w) ==
  /\ tpc[w] = "idle"
  /\ targ[w].done < MaxResolves
  /\ \E t \in TaxTargets :
       targ' = [targ EXCEPT ![w] = [kind |-> t.kind, name |-> t.name, done |-> @.done]]
  /\ tpc' = [tpc EXCEPT ![w] = "outer"]
  /\ UNCHANGED << category_cache, brand_term_cache, tret, lock_owner, term_calls >>
  /\ UNCHANGED orchVars
  /\ UNCHANGED aiVars
  /\ UNCHANGED warmVars
  /\ UNCHANGED sftpVars

\* lines 502-505 and 630-632: the cache test made without the lock
TaxOuterCheck(w) ==
  /\ tpc[w] = "outer"
  /\ LET cache == TermCache(targ[w].kind)
         cache_key == Lower(targ[w].name)
     IN IF cache_key \in DOMAIN cache
        THEN Returned(w, cache[cache_key])
        ELSE /\ tpc' = [tpc EXCEPT ![w] = "acquire"]
             /\ UNCHANGED << targ, tret >>
  /\ UNCHANGED << category_cache, brand_term_cache, lock_owner, term_calls >>
  /\ UNCHANGED orchVars
  /\ UNCHANGED aiVars
  /\ UNCHANGED warmVars
  /\ UNCHANGED sftpVars

\* Mutation of LockFree: the lock is taken whether or not another thread
\* holds it.
LockFreeAlways(owner) == TRUE

\* threading.Lock (lines 196-198): the with-statement goes on only when no
\* thread holds the lock
LockFree(owner) == owner = 0

\* lines 508 and 635: with self.category_creation_lock / brand_creation_lock
TaxAcquire(w) ==
  /\ tpc[w] = "acquire"
  /\ LockFree(lock_owner[targ[w].kind])
  /\ lock_owner' = [lock_owner EXCEPT ![targ[w].kind] = w]
  /\ tpc' = [tpc EXCEPT ![w] = "recheck"]
  /\ UNCHANGED << category_cache, brand_term_cache, targ, tret, term_calls >>
  /\ UNCHANGED orchVars
  /\ UNCHANGED aiVars
  /\ UNCHANGED warmVars
  /\ UNCHANGED sftpVars

\* Mutation of RecheckHit: the cache is not looked at again under the lock.
RecheckHitNever(cache, cache_key) == FALSE

\* lines 510 and 637: `if cache_key in cache` once the lock is held
RecheckHit(cache, cache_key) == cache_key \in DOMAIN cache

\* lines 510-511 and 637-638: the cache test repeated under the lock
TaxRecheck(w) ==
  /\ tpc[w] = "recheck"
  /\ LET cache == TermCache(targ[w].kind)
         cache_key == Lower(targ[w].name)
     IN IF RecheckHit(cache, cache_key)
        THEN Returned(w, cache[cache_key]) /\ Released(w)
        ELSE /\ tpc' = [tpc EXCEPT ![w] = "search"]
             /\ UNCHANGED << targ, tret, lock_owner >>
  /\ UNCHANGED << category_cache, brand_term_cache, term_calls >>
  /\ UNCHANGED orchVars
  /\ UNCHANGED aiVars
  /\ UNCHANGED warmVars
  /\ UNCHANGED sftpVars

\* does the resolver go on to the create call after this search answer
\* (lines 517-525 for categories, 660-672 for brands)
SearchLeadsToCreate(kind, sresp) ==
  IF kind = "category" THEN sresp \in { "nomatch", "http_error" }
  ELSE sresp = "nomatch"

\* lines 515-523 and 642-670: the remote search and what the resolver makes of it
TaxSearch(w) ==
  /\ tpc[w] = "search"
  /\ \E sresp \in TermSearchResps :
       LET kind == targ[w].kind
           name == targ[w].name
           r == IF kind = "category"
                THEN CategoryLockedSection(category_cache, name, sresp, "unused")
                ELSE BrandLockedSection(brand_term_cache, name, sresp, "unused")
       IN /\ term_calls' = term_calls \cup
               { [op |-> "search", kind |-> kind, key |-> Lower(name), resp |-> sresp,
                  n |-> TermCallCount("search", kind, Lower(name)) + 1] }
          /\ IF SearchLeadsToCreate(kind, sresp)
             THEN /\ tpc' = [tpc EXCEPT ![w] = "create"]
                  /\ UNCHANGED << category_cache, brand_term_cache, targ, tret, lock_owner >>
             ELSE /\ SetCache(kind, r.cache)
                  /\ Returned(w, r.id)
                  /\ Released(w)
  /\ UNCHANGED orchVars
  /\ UNCHANGED aiVars
  /\ UNCHANGED warmVars
  /\ UNCHANGED sftpVars

\* lines 526-545 and 672-715: the remote create and what the resolver makes of it
TaxCreate(w) ==
  /\ tpc[w] = "create"
  /\ \E cresp \in TermCreateResps :
       LET kind == targ[w].kind
           name == targ[w].name
           r == IF kind = "category"
                THEN CategoryLockedSection(category_cache, name, "nomatch", cresp)
                ELSE BrandLockedSection(brand_term_cache, name, "nomatch", cresp)
       IN /\ term_calls' = term_calls \cup
               { [op |-> "create", kind |-> kind, key |-> Lower(name), resp |-> cresp,
                  n |-> TermCallCount("create", kind, Lower(name)) + 1] }
          /\ SetCache(kind, r.cache)
          /\ Returned(w, r.id)
          /\ Released(w)
  /\ UNCHANGED orchVars
  /\ UNCHANGED aiVars
  /\ UNCHANGED warmVars
  /\ UNCHANGED sftpVars

NextTax ==
  \E w \in TaxWorkers :
    \/ TaxCall(w)
    \/ TaxOuterCheck(w)
    \/ TaxAcquire(w)
    \/ TaxRecheck(w)
    \/ TaxSearch(w)
    \/ TaxCreate(w)

SpecTax == InitTax /\ [][NextTax]_vars

\* a step of thread w inside a resolver it has entered; a thread that is
\* running is scheduled again, and a remote call ends (the requests carry a
\* timeout)
TaxStep(w) ==
  \/ TaxOuterCheck(w)
  \/ TaxAcquire(w)
  \/ TaxRecheck(w)
  \/ TaxSearch(w)
  \/ TaxCreate(w)

\* SpecTax with every thread that can take a step eventually taking one
SpecTaxLive == SpecTax /\ \A w \in TaxWorkers : WF_vars(TaxStep(w))

(***************************************************************************)
(* SpecLoad: load_all_existing_products called again and again on one      *)
(* uploader object.                                                        *)
(***************************************************************************)
\* calls of load_all_existing_products on one object
MaxLoadCalls == 3

InitLoad ==
  /\ df \in SeqsUpTo(RowPool, MaxRows)
  /\ skip_existing = TRUE
  /\ pc = "start"
  /\ stop_requested = FALSE
  /\ existing_products_cache = EmptyMap
  /\ cache_loaded = FALSE
  /\ category_cache = EmptyMap
  /\ brand_term_cache = EmptyMap
  /\ batch_start = 0
  /\ totals = ZeroTotals
  /\ frame = NoFrame
  /\ calls = << >>
  /\ events = << >>
  /\ result = NoDict
  /\ TaxIdle
  /\ SftpIdle
  /\ AiIdle
  /\ WarmIdle

LoadCalls == { k \in 1..Len(events) : events[k].op = "load" }

\* the products the answers of a build that succeeded carried (lines 745-762:
\* pages[pg] = products)
Received(loaded, ok, listing, outcome) ==
  IF loaded \/ ~ok THEN {}
  ELSE UNION { PageProducts(listing, outcome, pg) : pg \in 1..Len(listing) }

\* load_all_existing_products(brand_filters) is called; the event keeps the
\* flag it met, what it returned, the flag it left and, for a build that
\* succeeded, the products it received
LoadCall ==
  /\ Cardinality(LoadCalls) < MaxLoadCalls
  /\ \E listing \in Listings : \E outcome \in [1..Len(listing) -> PageOutcomes] :
       LET r == load_all_existing_products(cache_loaded, existing_products_cache,
                                           BrandFilters(df), listing, outcome)
       IN /\ existing_products_cache' = r.cache
          /\ cache_loaded' = r.loaded
          /\ events' = events
                       \o << [op |-> "load", loaded |-> cache_loaded, ok |-> r.ok,
                              left |-> r.loaded,
                              received |-> Received(cache_loaded, r.ok, listing, outcome)] >>
                       \o ListRequests(r.fetched, outcome)
  /\ UNCHANGED << df, skip_existing, pc, stop_requested, category_cache,
                  brand_term_cache, batch_start, totals, frame, calls, result >>
  /\ UNCHANGED taxVars
  /\ UNCHANGED aiVars
  /\ UNCHANGED warmVars
  /\ UNCHANGED sftpVars

\* batch_process_products in update mode, lines 1095-1098: the cache is
\* emptied and marked as loaded
ClearCacheForUpdate ==
  /\ ~(existing_products_cache = EmptyMap /\ cache_loaded)
  /\ existing_products_cache' = EmptyMap
  /\ cache_loaded' = TRUE
  /\ UNCHANGED << df, skip_existing, pc, stop_requested, category_cache,
                  brand_term_cache, batch_start, totals, frame, calls, events, result >>
  /\ UNCHANGED taxVars
  /\ UNCHANGED aiVars
  /\ UNCHANGED warmVars
  /\ UNCHANGED sftpVars

NextLoad == LoadCall \/ ClearCacheForUpdate

SpecLoad == InitLoad /\ [][NextLoad]_vars

(***************************************************************************)
(* SpecSftp: SFTPImageUploader.upload_file called again and again on one   *)
(* uploader object.  File names are sequences of characters; sizes are     *)
(* byte counts.                                                            *)
(***************************************************************************)
\* largest file size, in bytes
MaxSize == 1

Sizes == 0..MaxSize

\* the size of a file that does not exist
NoSize == 0 - 1

\* the characters clean_filename keeps (line 137), of those the names use;
\* an extension stands for its characters
SafeChars == { "a", "b", "_", "-", ".jpg" }

\* line 140: re.sub(r'_+', '_', filename)
RECURSIVE SqueezeUnderscores(_)
SqueezeUnderscores(name) ==
  IF Len(name) <= 1 THEN name
  ELSE IF name[1] = "_" /\ name[2] = "_" THEN SqueezeUnderscores(Tail(name))
  ELSE << name[1] >> \o SqueezeUnderscores(Tail(name))

\* line 143: filename.strip('_')
RECURSIVE StripUnderscores(_)
StripUnderscores(name) ==
  IF name = << >> THEN name
  ELSE IF Head(name) = "_" THEN StripUnderscores(Tail(name))
  ELSE IF name[Len(name)] = "_" THEN StripUnderscores(SubSeq(name, 1, Len(name) - 1))
  ELSE name

\* clean_filename, lines 95-147 (the names of the model hold no Cyrillic and
\* no decomposable character)
clean_filename(filename) ==
  IF filename = << >> THEN << >>
  ELSE LET replaced == [k \in 1..Len(filename) |->
                          IF filename[k] \in { " ", "," } THEN "_" ELSE filename[k]]
           kept == SelectSeq(replaced, LAMBDA c : c \in SafeChars)
           stripped == StripUnderscores(SqueezeUnderscores(kept))
       IN IF stripped = << >> THEN << "image" >> ELSE stripped

\* the local files of the model: two names that differ by a trailing space
LocalPool ==
  { [stem |-> << "a" >>, ext |-> ".jpg"],
    [stem |-> << "a", " " >>, ext |-> ".jpg"] }

\* os.path.basename(local_file_path)
Basename(file) == Append(file.stem, file.ext)

\* lines 431-438: the name of the file on the server
RemoteFilename(file, rename_to) ==
  IF rename_to # << >> THEN clean_filename(rename_to)
  ELSE Append(clean_filename(file.stem), file.ext)

\* the rename_to arguments: none, or the cleaned base name as
\* _upload_image_task passes it (woocommerce_fifu_uploader.py, lines 1189-1194)
RenameChoices(file) == { << >>, clean_filename(Basename(file)) }

\* _generate_image_url, lines 285-299
generate_image_url(remote_directory, filename) == << remote_directory, filename >>

\* Mutation of ShouldOverwrite: the sizes are not compared.
ShouldOverwriteAlways(file_exists, force_upload, local_size, remote_size) == TRUE

\* lines 454-474: must the file be written?
ShouldOverwrite(file_exists, force_upload, local_size, remote_size) ==
  \/ ~file_exists
  \/ force_upload
  \/ local_size # remote_size

\* what can go wrong during one call: nothing, or one of the requests
SftpFaults ==
  { "none", "connect", "directory", "stat_ioerror", "stat_exception",
    "size_stat", "remove", "put_failed", "put_truncated" }

\* what the server and the network do during a call with the given fault
SftpEnv(fault) ==
  [connect |-> fault # "connect",            \* connect() succeeds
   directory |-> fault # "directory",        \* ensure_remote_directory succeeds
   stat |-> CASE fault = "stat_ioerror" -> "ioerror"       \* sftp.stat of the
              [] fault = "stat_exception" -> "exception"   \* existence test
              [] OTHER -> "answered",
   size_stat |-> fault # "size_stat",        \* sftp.stat of get_remote_file_size
   remove |-> fault # "remove",              \* sftp.remove succeeds
   put |-> CASE fault = "put_failed" -> "failed"           \* sftp.put
             [] fault = "put_truncated" -> "truncated"
             [] OTHER -> "ok"]

MapRemove(m, k) == [x \in (DOMAIN m) \ { k } |-> m[x]]

\* the outcome of a call that returned before it looked at the server
EarlyReturn(connected, remote, fault) ==
  [returned |-> NoUrl, connected |-> connected, remote |-> remote,
   file_exists |-> FALSE, removed |-> FALSE, put |-> "none", fault |-> fault]

\* upload_file, lines 380-529: [returned, connected, remote, what was done]
upload_file(connected, local, remote, file, remote_directory, rename_to, force_upload, env) ==
  IF ~connected /\ ~env.connect THEN EarlyReturn(FALSE, remote, TRUE)
  ELSE IF file \notin DOMAIN local THEN EarlyReturn(TRUE, remote, FALSE)
  ELSE IF ~env.directory THEN EarlyReturn(TRUE, remote, TRUE)
  ELSE IF env.stat = "exception" THEN EarlyReturn(FALSE, remote, TRUE)
  ELSE
    LET remote_filename == RemoteFilename(file, rename_to)
        present == remote_filename \in DOMAIN remote
        file_exists == present /\ env.stat = "answered"
        local_size == local[file]
        remote_size == IF present /\ env.size_stat THEN remote[remote_filename] ELSE 0
        should_overwrite == ShouldOverwrite(file_exists, force_upload,
                                            local_size, remote_size)
        removed == file_exists /\ should_overwrite /\ env.remove
        after_remove == IF removed THEN MapRemove(remote, remote_filename) ELSE remote
        after_put ==
          CASE env.put = "ok" -> MapPut(after_remove, remote_filename, local_size)
            [] env.put = "truncated" /\ local_size > 0 ->
                 MapPut(after_remove, remote_filename, 0)
            [] OTHER -> after_remove
        fault == \/ present /\ env.stat = "ioerror"
                 \/ file_exists /\ ~force_upload /\ ~env.size_stat
                 \/ file_exists /\ should_overwrite /\ ~env.remove
                 \/ should_overwrite /\ env.put # "ok"
    IN [returned |-> IF should_overwrite /\ env.put # "ok" THEN NoUrl
                     ELSE generate_image_url(remote_directory, remote_filename),
        connected |-> TRUE,
        remote |-> IF should_overwrite THEN after_put ELSE remote,
        file_exists |-> file_exists,
        removed |-> removed,
        put |-> IF should_overwrite THEN env.put ELSE "none",
        fault |-> fault]

InitSftp ==
  /\ df = << >>
  /\ skip_existing = TRUE
  /\ pc = "start"
  /\ stop_requested = FALSE
  /\ existing_products_cache = EmptyMap
  /\ cache_loaded = FALSE
  /\ category_cache = EmptyMap
  /\ brand_term_cache = EmptyMap
  /\ batch_start = 0
  /\ totals = ZeroTotals
  /\ frame = NoFrame
  /\ calls = << >>
  /\ events = << >>
  /\ result = NoDict
  /\ TaxIdle
  /\ sftp_connected = FALSE
  /\ local_files \in [LocalPool -> Sizes]
  /\ remote_files = EmptyMap
  /\ last_uploads = << >>
  /\ AiIdle
  /\ WarmIdle

\* the last two entries of a log
LastTwo(log) == IF Len(log) <= 2 THEN log ELSE SubSeq(log, Len(log) - 1, Len(log))

\* the mark kept of a call that was forced, had no local file or met a fault
OtherCall ==
  [file |-> << >>, rename_to |-> << >>, force_upload |-> TRUE,
   local_size |-> NoSize, before |-> NoSize, removed |-> FALSE, put |-> "none",
   fault |-> TRUE, returned |-> NoUrl]

\* upload_file(local_file_path, 'products', rename_to, force_upload) is
\* called; an unforced call for an existing local file whose requests were all
\* answered is kept in full
UploadFile ==
  /\ \E file \in LocalPool : \E rename_to \in RenameChoices(file) :
     \E force_upload \in BOOLEAN : \E fault \in SftpFaults :
       LET r == upload_file(sftp_connected, local_files, remote_files, file,
                            "products", rename_to, force_upload, SftpEnv(fault))
           before == IF RemoteFilename(file, rename_to) \in DOMAIN remote_files
                     THEN remote_files[RemoteFilename(file, rename_to)] ELSE NoSize
           entry == IF force_upload \/ r.fault \/ file \notin DOMAIN local_files
                    THEN OtherCall
                    ELSE [file |-> file, rename_to |-> rename_to,
                          force_upload |-> force_upload,
                          local_size |-> local_files[file],
                          before |-> before,
                          removed |-> r.removed, put |-> r.put,
                          fault |-> r.fault, returned |-> r.returned]
       IN /\ sftp_connected' = r.connected
          /\ remote_files' = r.remote
          /\ last_uploads' = LastTwo(Append(last_uploads, entry))
  /\ UNCHANGED local_files
  /\ UNCHANGED << orchVars, category_cache, brand_term_cache >>
  /\ UNCHANGED taxVars
  /\ UNCHANGED aiVars
  /\ UNCHANGED warmVars

\* a local image is replaced by one of another size, or deleted
LocalFileChanges ==
  /\ \E file \in DOMAIN local_files :
       \/ \E size \in Sizes \ { local_files[file] } :
            local_files' = [local_files EXCEPT ![file] = size]
       \/ local_files' = MapRemove(local_files, file)
  /\ UNCHANGED << sftp_connected, remote_files, last_uploads >>
  /\ UNCHANGED << orchVars, category_cache, brand_term_cache >>
  /\ UNCHANGED taxVars
  /\ UNCHANGED aiVars
  /\ UNCHANGED warmVars

NextSftp == UploadFile \/ LocalFileChanges

SpecSftp == InitSftp /\ [][NextSftp]_vars

(***************************************************************************)
(* SpecAi: AIDescriptionGenerator.call_ai_api called again and again on    *)
(* one generator.  A request is one call of                                *)
(* client.chat.completions.create.                                         *)
(***************************************************************************)
\* largest max_retries a generator is built with
MaxRetries == 2

\* calls of call_ai_api on one generator
MaxAiCalls == 2

\* what one pass of the retry loop can meet (lines 205-276): an answer that
\* parses, an empty answer, an answer repaired by the closing suffix, an
\* answer that does not parse, a timeout / rate limit / connection error, an
\* APIStatusError with a retryable or another status, another APIError, any
\* other exception
AttemptOutcomes ==
  { "json", "empty", "json_repaired", "json_broken", "transient",
    "status_retryable", "status_other", "api_error", "exception" }

\* `if retry < self.max_retries` (lines 217, 243, 250, 260, 272)
RetryAllowed(retry, max_retries) == retry < max_retries

\* one pass of the loop body: "data" and "none" return at once, "continue"
\* goes to the next pass, "break" leaves the loop
AttemptStep(outcome, retry, max_retries) ==
  CASE outcome \in { "json", "json_repaired" } -> "data"
    [] outcome \in { "empty", "json_broken", "transient", "exception" } ->
         IF RetryAllowed(retry, max_retries) THEN "continue" ELSE "break"
    [] outcome = "status_retryable" ->
         IF RetryAllowed(retry, max_retries) THEN "continue" ELSE "none"
    [] OTHER -> "none"

\* `for retry in range(self.max_retries + 1)`: is there a pass after this one?
LoopGoesOn(retry, max_retries) == retry + 1 < max_retries + 1

\* Mutation of AfterLoop: the exhausted loop ends in an exception.
AfterLoopRaising(g) ==
  [g EXCEPT !.pc = "raised",
            !.stats.failed_after_retries = @ + 1]

\* lines 278-280: all attempts used up
AfterLoop(g) ==
  [g EXCEPT !.pc = "returned",
            !.returned = None,
            !.stats.failed_after_retries = @ + 1]

InitAi ==
  /\ df = << >>
  /\ skip_existing = TRUE
  /\ pc = "start"
  /\ stop_requested = FALSE
  /\ existing_products_cache = EmptyMap
  /\ cache_loaded = FALSE
  /\ category_cache = EmptyMap
  /\ brand_term_cache = EmptyMap
  /\ batch_start = 0
  /\ totals = ZeroTotals
  /\ frame = NoFrame
  /\ calls = << >>
  /\ events = << >>
  /\ result = NoDict
  /\ TaxIdle
  /\ SftpIdle
  /\ WarmIdle
  /\ \E max_retries \in 0..MaxRetries :
       ai = [pc |-> "idle", max_retries |-> max_retries, ncalls |-> 0, retry |-> 0,
             requests |-> 0, last |-> "none", returned |-> None,
             stats |-> [retries |-> 0, failed_after_retries |-> 0]]

\* call_ai_api(prompt) is entered
AiCall ==
  /\ ai.pc \in { "idle", "returned" }
  /\ ai.ncalls < MaxAiCalls
  /\ ai' = [ai EXCEPT !.pc = "attempt", !.ncalls = @ + 1, !.retry = 0,
                      !.requests = 0, !.last = "none", !.returned = None]
  /\ UNCHANGED << orchVars, category_cache, brand_term_cache >>
  /\ UNCHANGED << taxVars, sftpVars, warmVars >>

\* call_ai_api, lines 204-280: one pass of the retry loop, with the pause
\* that follows a failure and the statements after the loop
AiAttempt ==
  /\ ai.pc = "attempt"
  /\ \E outcome \in AttemptOutcomes :
       LET sent == [ai EXCEPT !.requests = @ + 1,
                              !.last = outcome,
                              !.stats.retries = IF ai.retry > 0 THEN @ + 1 ELSE @]
           step == AttemptStep(outcome, ai.retry, ai.max_retries)
       IN ai' = CASE step = "data" ->
                       [sent EXCEPT !.pc = "returned", !.returned = "data"]
                  [] step = "none" ->
                       [sent EXCEPT !.pc = "returned", !.returned = None]
                  [] step = "continue" /\ LoopGoesOn(ai.retry, ai.max_retries) ->
                       [sent EXCEPT !.retry = @ + 1]
                  [] OTHER -> AfterLoop(sent)
  /\ UNCHANGED << orchVars, category_cache, brand_term_cache >>
  /\ UNCHANGED << taxVars, sftpVars, warmVars >>

NextAi == AiCall \/ AiAttempt

\* the thread that called call_ai_api keeps running: every request returns
\* or raises within self.timeout, every pause is finite
SpecAi == InitAi /\ [][NextAi]_vars /\ WF_vars(AiAttempt)

(***************************************************************************)
(* SpecWarm: _preload_categories_and_brands, run once by the constructor    *)
(* over empty taxonomy caches.  The Taxonomy Term Store holds a list of     *)
(* category terms and a list of brand terms; a listing request without a    *)
(* page parameter is answered with the first per_page terms.                *)
(***************************************************************************)
\* per_page of the two listing requests (100 in the source, the most the REST
\* API grants), scaled
PerPage == 2
\* most terms of one kind the remote holds
MaxTerms == 3

Term(name, id) == [name |-> name, id |-> id]

CategoryPool == { Term("Pumps", 11), Term("Valves", 21), Term(" Seals ", 31) }

BrandPool == { Term("Acme", 41), Term("Bosch", 51), Term("Timken", 61) }

\* the lists of at most n different terms of S
DistinctSeqs(S, n) ==
  { q \in SeqsUpTo(S, n) : \A a, b \in 1..Len(q) : q[a] = q[b] => a = b }

\* answer of a listing request to its status test: 200, another status, or a
\* raised exception
ListOutcomes == { "ok", "http_error", "exception" }

\* what the remote sends for params={'per_page': 100}: its first page
FirstPage(terms) == SubSeq(terms, 1, Min(PerPage, Len(terms)))

\* lines 1662-1664 and 1685-1687: cache[name.strip().lower()] = id for every
\* term of the answer, in order
RECURSIVE StoreTerms(_, _)
StoreTerms(cache, terms) ==
  IF terms = << >> THEN cache
  ELSE StoreTerms(MapPut(cache, Lower(Strip(Head(terms).name)), Head(terms).id),
                  Tail(terms))

InitWarm ==
  /\ df = << >>
  /\ skip_existing = TRUE
  /\ pc = "start"
  /\ stop_requested = FALSE
  /\ existing_products_cache = EmptyMap
  /\ cache_loaded = FALSE
  /\ category_cache = EmptyMap
  /\ brand_term_cache = EmptyMap
  /\ batch_start = 0
  /\ totals = ZeroTotals
  /\ frame = NoFrame
  /\ calls = << >>
  /\ events = << >>
  /\ result = NoDict
  /\ TaxIdle
  /\ SftpIdle
  /\ AiIdle
  /\ \E categories \in DistinctSeqs(CategoryPool, MaxTerms) :
     \E brands \in DistinctSeqs(BrandPool, MaxTerms) :
       warm = [pc |-> "categories", categories |-> categories, brands |-> brands,
               categories_ok |-> FALSE, brands_ok |-> FALSE]

\* lines 1657-1669: the category listing and its loop
PreloadCategories ==
  /\ warm.pc = "categories"
  /\ \E outcome \in ListOutcomes :
       /\ category_cache' = IF outcome = "ok"
                            THEN StoreTerms(category_cache, FirstPage(warm.categories))
                            ELSE category_cache
       /\ warm' = [warm EXCEPT !.pc = "brands", !.categories_ok = outcome = "ok"]
  /\ UNCHANGED brand_term_cache
  /\ UNCHANGED orchVars
  /\ UNCHANGED << taxVars, sftpVars, aiVars >>

\* lines 1671-1692: the brand listing and its loop (brand_endpoint and
\* brand_api_client are always set once _find_brand_endpoint has returned)
PreloadBrands ==
  /\ warm.pc = "brands"
  /\ \E outcome \in ListOutcomes :
       /\ brand_term_cache' = IF outcome = "ok"
                              THEN StoreTerms(brand_term_cache, FirstPage(warm.brands))
                              ELSE brand_term_cache
       /\ warm' = [warm EXCEPT !.pc = "done", !.brands_ok = outcome = "ok"]
  /\ UNCHANGED category_cache
  /\ UNCHANGED orchVars
  /\ UNCHANGED << taxVars, sftpVars, aiVars >>

NextWarm == PreloadCategories \/ PreloadBrands

SpecWarm == InitWarm /\ [][NextWarm]_vars

(***************************************************************************)
(* SpecReuse: upload_products called again and again on one uploader       *)
(* object.  What the constructor set (stop_requested, the caches,          *)
(* cache_loaded) is carried from one call to the next; the locals of the   *)
(* calls are not.  The run log restarts at each call with a summary of the *)
(* calls before it.                                                        *)
(***************************************************************************)
\* calls of upload_products on the one object
MaxRuns == 2
\* longest DataFrame of these runs
ReuseRows == 1

InitReuse ==
  /\ df \in SeqsUpTo(RowPool, ReuseRows)
  /\ skip_existing \in BOOLEAN
  /\ pc = "upload"
  /\ stop_requested = FALSE
  /\ existing_products_cache = EmptyMap
  /\ cache_loaded = FALSE
  /\ \E pre \in PreloadedCaches :
       /\ category_cache = pre.cat
       /\ brand_term_cache = pre.brand
  /\ batch_start = 0
  /\ totals = ZeroTotals
  /\ frame = NoFrame
  /\ calls = << >>
  /\ events = << [op |-> "earlier", runs |-> 0, built |-> FALSE, stopped |-> FALSE] >>
  /\ result = NoDict
  /\ TaxIdle
  /\ SftpIdle
  /\ AiIdle
  /\ WarmIdle

\* did the calls made so far on the object build the Existing-Product Cache
\* from a listing (load_all_existing_products set cache_loaded, line 795)
BuiltSoFar ==
  \/ events[1].built
  \/ skip_existing /\ cache_loaded /\ \E k \in 1..Len(events) : events[k].op = "list"

\* Mutation of StopFlagAtCall: a new call clears the stop flag.
StopFlagAtCallCleared(stop) == FALSE

\* stop_requested at the start of a call: upload_products and
\* batch_process_products never assign it (the constructor, line 172, and
\* stop_upload, line 227, are the only writers)
StopFlagAtCall(stop) == stop

\* upload_products returns and is called again on the same object, in either
\* mode; the attributes of the object keep their values
CallAgain ==
  /\ pc = "returned"
  /\ events[1].runs + 1 < MaxRuns
  /\ pc' = "upload"
  /\ skip_existing' \in BOOLEAN
  /\ events' = << [op |-> "earlier", runs |-> events[1].runs + 1,
                   built |-> BuiltSoFar, stopped |-> stop_requested] >>
  /\ batch_start' = 0
  /\ totals' = ZeroTotals
  /\ result' = NoDict
  /\ stop_requested' = StopFlagAtCall(stop_requested)
  /\ UNCHANGED << df, existing_products_cache, cache_loaded,
                  category_cache, brand_term_cache, frame, calls >>
  /\ UNCHANGED taxVars
  /\ UNCHANGED aiVars
  /\ UNCHANGED warmVars
  /\ UNCHANGED sftpVars

NextReuse == Next \/ CallAgain

SpecReuse == InitReuse /\ [][NextReuse]_vars

(***************************************************************************)
(* Reading the call trace of the batch in progress.                        *)
(***************************************************************************)
CallsOf(op) == { k \in 1..Len(calls) : calls[k].op = op }

\* rows whose item of an answered create request got the given kind of answer
CreateAnswered(kind) ==
  { r \in Range(frame.rows) :
      \E k \in CallsOf("create") : \E j \in 1..Len(calls[k].items) :
        /\ calls[k].ok
        /\ calls[k].items[j].row = r
        /\ calls[k].results[j] = kind }

\* rows some create request carried
CreateSubmitted ==
  { r \in Range(frame.rows) :
      \E k \in CallsOf("create") : \E j \in 1..Len(calls[k].items) :
        calls[k].items[j].row = r }

\* rows some update request carried
UpdateSubmitted ==
  { r \in Range(frame.rows) :
      \E k \in CallsOf("update") : \E j \in 1..Len(calls[k].items) :
        calls[k].items[j].row = r }

\* rows whose item of an answered update request came back without an error
UpdateSucceeded ==
  { r \in Range(frame.rows) :
      \E k \in CallsOf("update") : \E j \in 1..Len(calls[k].items) :
        /\ calls[k].ok
        /\ calls[k].items[j].row = r
        /\ calls[k].results[j] = "updated" }

\* rows whose single-SKU search returned no product with an id
Ghosts ==
  { calls[k].row : k \in { c \in CallsOf("search") : "id" \notin DOMAIN calls[c].returned } }

\* a counter of a returned dictionary, 0 when the dictionary lacks the key
Count(r, key) == IF key \in DOMAIN r THEN r[key] ELSE 0

(***************************************************************************)
(* Claims.                                                                 *)
(***************************************************************************)
\* C1: every run that was not stopped and whose cache build succeeded returns
\* a result with new + updated + skipped + errors = total.  (The claim says so
\* of every run; these are the runs most favourable to it.)
C1_CountersAddUpToTotal ==
  (pc = "returned" /\ ~stop_requested /\ "new" \in DOMAIN result)
    => result.new + result.updated + result.skipped + result.errors = result.total

\* C2: in skip-existing mode, once the build of the Existing-Product Cache has
\* failed the run has returned success = False, reports nothing as new or
\* updated, has started no batch and has issued no create, update or
\* image-assignment request.
C2_CacheFailureStopsRun ==
  (skip_existing /\ ~cache_loaded /\ \E k \in 1..Len(events) : events[k].op = "list")
    => /\ pc = "returned"
       /\ result.success = FALSE
       /\ Count(result, "new") = 0
       /\ Count(result, "updated") = 0
       /\ calls = << >>
       /\ frame = NoFrame
       /\ \A k \in 1..Len(events) :
            events[k].op \in { "sftp_connect", "list", "sftp_disconnect" }

\* C2 happens: a run over a non-empty DataFrame returned on a failed cache build
C2_Witness ==
  /\ skip_existing
  /\ pc = "returned"
  /\ ~cache_loaded
  /\ Len(df) > 0
  /\ \E k \in 1..Len(events) : events[k].op = "list"
  /\ result.success = FALSE

\* rows of the batch in progress whose lowercased SKU is a key of the
\* Existing-Product Cache
CachedRows ==
  { i \in Range(frame.rows) :
      df[i].SKU # "" /\ Lower(df[i].SKU) \in DOMAIN existing_products_cache }

C4_DuplicateGoesToUpdate ==
  (~skip_existing /\ pc = "tally") =>
    /\ \A r \in CreateAnswered("duplicate") :
         \E a \in CallsOf("search") : calls[a].row = r
    /\ \A a \in CallsOf("search") :
         "id" \in DOMAIN calls[a].returned =>
           \E b \in CallsOf("update") : \E j \in 1..Len(calls[b].items) :
             /\ b > a
             /\ calls[b].items[j].row = calls[a].row
             /\ calls[b].items[j].id = calls[a].returned.id
             /\ calls[b].items[j].sku = None
    /\ UpdateBatchResult(frame).updated = Cardinality(UpdateSucceeded)
    /\ UpdateBatchResult(frame).new = Cardinality(CreateAnswered("id"))
    /\ UpdateSucceeded \cap CreateAnswered("id") = {}

\* C4 happens: one row, its create answered duplicate, its search found a
\* product, its update succeeded: updated = 1, new = 0
C4_Witness ==
  /\ ~skip_existing
  /\ pc = "tally"
  /\ Len(frame.rows) = 1
  /\ CreateAnswered("duplicate") # {}
  /\ \E a \in CallsOf("search") :
       /\ "id" \in DOMAIN calls[a].returned
       /\ calls[a].returned.id = RemoteProductId(calls[a].sku)
  /\ UpdateBatchResult(frame).updated = 1
  /\ UpdateBatchResult(frame).new = 0

\* C5: a ghost SKU (create answered duplicate, search returned no product id)
\* is counted among the errors, is in no update request and in no create
\* request issued after its search, and no batch is started twice.
C5_GhostNeverResubmitted ==
  ~skip_existing =>
    /\ Ghosts \cap UpdateSubmitted = {}
    /\ \A a \in CallsOf("search") : \A b \in CallsOf("create") :
         ("id" \notin DOMAIN calls[a].returned /\ b > a)
           => \A j \in 1..Len(calls[b].items) : calls[b].items[j].row # calls[a].row
    /\ \A a, b \in 1..Len(events) :
         (a < b /\ events[a].op = "batch" /\ events[b].op = "batch")
           => events[a].start < events[b].start
    /\ pc = "tally" =>
         /\ UpdateBatchResult(frame).errors >= Cardinality(Ghosts)
         /\ Ghosts \cap (CreateAnswered("id") \cup UpdateSucceeded) = {}

\* C5 happens: a batch met a ghost SKU
C5_Witness ==
  /\ ~skip_existing
  /\ pc = "tally"
  /\ Ghosts # {}
  /\ Ghosts \subseteq CreateAnswered("duplicate")

\* rows of the batch in progress without SKU
NoSkuRows == { i \in Range(frame.rows) : df[i].SKU = "" }

\* rows of the batch in progress a payload is assembled for
PayloadRows ==
  (Range(frame.rows) \ NoSkuRows) \ (IF skip_existing THEN CachedRows ELSE {})

\* C8: a category or brand that could not be resolved fails neither the row
\* nor the batch: every row with a SKU (not skipped) has its payload assembled
\* and submitted, the payload carries a link only for a resolved term, and the
\* only rows payload assembly counts as errors are those without SKU.
C8_UnresolvedTermDoesNotFailRow ==
  /\ \A item \in UNION { Range(calls[k].items) : k \in CallsOf("create") } :
       /\ Len(item.categories) <= 1
       /\ Len(item.brands) <= 1
       /\ \A t \in Range(item.categories) \cup Range(item.brands) : t # NoId
  /\ pc = "tally" =>
       /\ PayloadRows \subseteq CreateSubmitted
       /\ (IF skip_existing THEN frame.error_count ELSE frame.initial_error_count)
            = Cardinality(NoSkuRows)

\* C8 happens: a row naming a category was created without a category link and
\* the batch counted no error
C8_Witness ==
  /\ pc = "tally"
  /\ BatchResult(frame).errors = 0
  /\ \E k \in CallsOf("create") : \E j \in 1..Len(calls[k].items) :
       /\ df[calls[k].items[j].row].Category # ""
       /\ calls[k].items[j].categories = << >>
       /\ calls[k].ok
       /\ calls[k].results[j] = "id"

\* SKUs whose image task returned no URL
NoImageSkus ==
  { calls[k].sku : k \in { c \in CallsOf("image") : calls[c].url = NoUrl } }

\* the errors of a batch by the call trace: the rows neither skipped, created
\* nor updated, a ghost SKU counted twice
TraceErrors ==
  Cardinality(Range(frame.rows)
              \ ((IF skip_existing THEN CachedRows ELSE {})
                 \cup CreateAnswered("id") \cup UpdateSucceeded))
  + Cardinality(Ghosts)

\* C9: when the image task of a SKU returns no URL, no image-assignment call
\* is issued for that SKU, its rows are still submitted, and the errors of the
\* batch are those of the create, search and update answers alone.
C9_NoImageNoAssignNoError ==
  /\ \A a \in CallsOf("assign") :
       /\ calls[a].url # NoUrl
       /\ calls[a].url[2] \notin NoImageSkus
  /\ pc = "tally" =>
       /\ \A i \in PayloadRows : df[i].SKU \in NoImageSkus => i \in CreateSubmitted
       /\ BatchResult(frame).errors = TraceErrors

\* C9 happens: a product whose SKU has no image was created, no assignment was
\* issued and no error was counted
C9_Witness ==
  /\ pc = "tally"
  /\ \E i \in CreateAnswered("id") : df[i].SKU \in NoImageSkus
  /\ CallsOf("assign") = {}
  /\ BatchResult(frame).errors = 0

\* C10: a failing image assignment changes no counter (new, updated and errors
\* follow from the create, search and update answers alone), no request other
\* than image upload, create, search, update and image assignment is issued,
\* and every created or updated product with an image URL has its assignment
\* attempted.
C10_AssignFailureChangesNothing ==
  /\ \A k \in 1..Len(calls) :
       calls[k].op \in { "image", "create", "assign", "search", "ghost", "update" }
  /\ pc = "tally" =>
       /\ BatchResult(frame).new = Cardinality(CreateAnswered("id"))
       /\ BatchResult(frame).updated = Cardinality(UpdateSucceeded)
       /\ BatchResult(frame).errors = TraceErrors
       /\ \A r \in CreateAnswered("id") :
            df[r].SKU \in DOMAIN frame.images_urls =>
              \E a \in CallsOf("assign") :
                calls[a].id = NewProductId(r) /\ calls[a].url = ImageUrl(df[r].SKU)
       /\ \A r \in UpdateSucceeded :
            df[r].SKU \in DOMAIN frame.images_urls =>
              \E a \in CallsOf("assign") :
                calls[a].id = RemoteProductId(df[r].SKU)
                  /\ calls[a].url = ImageUrl(df[r].SKU)

\* C10 happens: of two image assignments of a batch one failed and one
\* succeeded, and both products stay counted with no error
C10_Witness ==
  /\ pc = "tally"
  /\ \E a, b \in CallsOf("assign") : ~calls[a].ok /\ calls[b].ok
  /\ BatchResult(frame).new + BatchResult(frame).updated = 2
  /\ BatchResult(frame).errors = 0

\* C6: all the resolve calls for one name return the same id, and the remote
\* create call is issued at most once for a name.  (The claim says so of all
\* runs; it is stated here of the runs in which no remote call raised or was
\* answered with an unexpected failure status, the most favourable to it.)
C6_SameIdOneCreate ==
  (\A c \in term_calls : c.resp \in { "match", "nomatch", "created", "term_exists" })
    => /\ \A r1, r2 \in tret :
            (r1.kind = r2.kind /\ r1.key = r2.key) => r1.id = r2.id
       /\ \A c \in term_calls : c.op = "create" => c.n = 1

\* C7: for both kinds, once a create call was refused with term_exists and a
\* payload of existing ids, the first of those ids was returned and is cached.
C7_TermExistsRecovered ==
  \A c \in term_calls :
    (c.op = "create" /\ c.resp = "term_exists")
      => /\ c.key \in DOMAIN TermCache(c.kind)
         /\ [kind |-> c.kind, key |-> c.key, id |-> ExistingTermIds(c.key)[1]] \in tret

\* the page requests of the load call logged at position k
LoadRequests(k) ==
  { j \in (k + 1)..Len(events) :
      /\ events[j].op = "list"
      /\ \A i \in (k + 1)..j : events[i].op = "list" }

\* C11: a cache build one of whose page requests errored (raised, or was
\* answered with a non-success status) returns False and leaves cache_loaded
\* False.
C11_AnyPageErrorFailsBuild ==
  \A k \in LoadCalls :
    (\E j \in LoadRequests(k) : ~events[j].ok)
      => (~events[k].ok /\ ~events[k].left)

\* a step that is a call of load_all_existing_products
IsLoadStep ==
  /\ Len(events') > Len(events)
  /\ events'[Len(events) + 1].op = "load"

\* C12: load_all_existing_products called with the cache already built
\* returns True, issues no listing request and leaves the cache and the flag
\* as they were.
C12_LoadedCacheIsNoOp ==
  [][(cache_loaded /\ IsLoadStep)
       => /\ existing_products_cache' = existing_products_cache
          /\ cache_loaded'
          /\ Len(events') = Len(events) + 1
          /\ events'[Len(events')].ok]_vars

\* C12 happens: a call met a built, non-empty cache
C12_Witness ==
  /\ existing_products_cache # EmptyMap
  /\ \E k \in LoadCalls : events[k].loaded /\ events[k].ok

\* the entries a step appends to the run log
NewEvents == { events'[k] : k \in (Len(events) + 1)..Len(events') }

\* C13: once stop_upload() has been called, no step of the run starts a new
\* batch and no step begins the pause between batches.
C13_StopPreventsBatchAndDelay ==
  [][stop_requested => \A e \in NewEvents : e.op \notin { "batch", "sleep" }]_vars

\* entries of the run log of one kind
EventsOf(op) == { k \in 1..Len(events) : events[k].op = op }

\* C14: a stop request does not cancel the batch in progress: when a batch
\* ends with the stop flag set, every payload was submitted for creation,
\* every duplicate was looked up, every product found went into an update
\* request and every created or updated product with an image had its
\* assignment issued; the result of a stopped run holds the run counters, every
\* batch started was folded into them, and total is the number of input rows.
C14_StopDoesNotCancelBatch ==
  /\ (stop_requested /\ pc = "tally") =>
       /\ PayloadRows \subseteq CreateSubmitted
       /\ ~skip_existing =>
            /\ \A r \in CreateAnswered("duplicate") :
                 \E a \in CallsOf("search") : calls[a].row = r
            /\ \A a \in CallsOf("search") :
                 "id" \in DOMAIN calls[a].returned => calls[a].row \in UpdateSubmitted
       /\ \A r \in CreateAnswered("id") :
            df[r].SKU \in DOMAIN frame.images_urls =>
              \E a \in CallsOf("assign") : calls[a].id = NewProductId(r)
       /\ \A r \in UpdateSucceeded :
            df[r].SKU \in DOMAIN frame.images_urls =>
              \E a \in CallsOf("assign") : calls[a].id = RemoteProductId(df[r].SKU)
  /\ (stop_requested /\ pc = "returned" /\ "new" \in DOMAIN result) =>
       /\ result.total = Len(df)
       /\ result.uploaded = totals.processed_count
       /\ result.new = totals.new_count
       /\ result.updated = totals.updated_count
       /\ result.skipped = totals.skipped_count
       /\ result.errors = totals.error_count
       /\ Cardinality(EventsOf("progress")) = Cardinality(EventsOf("batch"))

\* C14 happens: a run over three rows was stopped after its first batch, whose
\* lookup and update stages had run, and returned its counters
C14_Witness ==
  /\ stop_requested
  /\ pc = "returned"
  /\ Len(df) > BatchSize
  /\ Cardinality(EventsOf("batch")) = 1
  /\ result.updated > 0
  /\ result.total = Len(df)

\* the run returned after a stop request made the loop leave rows unprocessed
EndedByStop ==
  /\ pc = "returned"
  /\ stop_requested
  /\ "new" \in DOMAIN result
  /\ Cardinality(EventsOf("batch")) * BatchSize < Len(df)

\* lines 1154-1163 for a run all of whose n rows failed
AllRowsFailed(n) ==
  [success |-> FALSE, uploaded |-> 0, new |-> 0, updated |-> 0, skipped |-> 0,
   errors |-> n, total |-> n]

\* C15: the result of a run ended by a stop request can be told apart from
\* the result of a failed run: it is never the dictionary returned by a run
\* that was not stopped and failed on every row.
C15_StoppedRunIsRecognisable ==
  EndedByStop => result # AllRowsFailed(Len(df))

\* a run that was not stopped failed on each of its rows
C15_Witness ==
  /\ pc = "returned"
  /\ ~stop_requested
  /\ Len(df) > BatchSize
  /\ result = AllRowsFailed(Len(df))

\* the batch starts of a run that goes through the whole DataFrame
BatchStarts == { n \in 0..(Len(df) - 1) : n % BatchSize = 0 }

\* the starts of the batches whose processing raised
RaisedStarts == { events[k].start : k \in EventsOf("raised") }

\* number of rows of the batches starting at the positions of S
RECURSIVE RowsOfBatches(_)
RowsOfBatches(S) ==
  IF S = {} THEN 0
  ELSE LET start == CHOOSE x \in S : TRUE
       IN (Min(start + BatchSize, Len(df)) - start) + RowsOfBatches(S \ { start })

\* C16: an exception raised while a batch is processed is absorbed: the pass
\* of the loop ends with its progress report, a run that was not stopped still
\* starts every batch and returns a dictionary, all rows of the batches that
\* raised are among the errors and none of them among new, updated or skipped.
C16_BatchExceptionAbsorbed ==
  /\ \A k \in EventsOf("raised") :
       /\ k < Len(events)
       /\ events[k + 1].op = "progress"
       /\ events[k + 1].current = Min(events[k].start + BatchSize, Len(df))
  /\ (pc = "returned" /\ RaisedStarts # {}) =>
       /\ { "success", "new", "updated", "skipped", "errors", "total" }
            \subseteq DOMAIN result
       /\ result.errors >= RowsOfBatches(RaisedStarts)
       /\ result.new + result.updated + result.skipped
            <= RowsOfBatches({ events[k].start : k \in EventsOf("batch") } \ RaisedStarts)
       /\ ~stop_requested =>
            /\ { events[k].start : k \in EventsOf("batch") } = BatchStarts
            /\ RaisedStarts = BatchStarts => result = AllRowsFailed(Len(df))

\* C16 happens: the first batch of a run raised, the second one was processed
\* and created a product, and the run returned its dictionary
C16_Witness ==
  /\ pc = "returned"
  /\ ~stop_requested
  /\ RaisedStarts = { 0 }
  /\ Len(df) > BatchSize
  /\ result.new > 0
  /\ result.errors = BatchSize

\* the connection to the asset publisher could not be established
SftpConnectFailed ==
  \E k \in EventsOf("sftp_connect") : ~events[k].ok

\* C17: when the SFTP connection cannot be established at the start of
\* upload_products, the run has returned success = False and uploaded = 0, and
\* no cache build, no batch and no remote product request was started.
C17_SftpFailureAbortsRun ==
  SftpConnectFailed =>
    /\ pc = "returned"
    /\ result.success = FALSE
    /\ result.uploaded = 0
    /\ Len(events) = 1
    /\ ~cache_loaded
    /\ existing_products_cache = EmptyMap
    /\ calls = << >>
    /\ frame = NoFrame
    /\ totals = ZeroTotals

\* C17 happens: a run over a non-empty DataFrame ended on the failed connection
C17_Witness ==
  /\ SftpConnectFailed
  /\ Len(df) > 0
  /\ result = SftpFailureResult

\* rows carried by a request of the given kind that failed as a whole
FailedChunkRows(op) ==
  { r \in Range(frame.rows) :
      \E k \in CallsOf(op) : \E j \in 1..Len(calls[k].items) :
        ~calls[k].ok /\ calls[k].items[j].row = r }

\* C18: a create or update sub-chunk that fails as a whole does not stop the
\* batch: at the end of the batch every payload was still submitted for
\* creation and every product found was still submitted for update, the rows
\* of the failed sub-chunks are neither created nor looked up nor updated, and
\* the errors of the batch count each of them.
C18_FailedChunkDoesNotStopBatch ==
  pc = "tally" =>
    /\ PayloadRows \subseteq CreateSubmitted
    /\ \A a \in CallsOf("search") :
         "id" \in DOMAIN calls[a].returned => calls[a].row \in UpdateSubmitted
    /\ FailedChunkRows("create") \cap CreateAnswered("id") = {}
    /\ FailedChunkRows("create") \cap UpdateSubmitted = {}
    /\ FailedChunkRows("update") \cap UpdateSucceeded = {}
    /\ FailedChunkRows("create") \cap FailedChunkRows("update") = {}
    /\ BatchResult(frame).errors
         >= Cardinality(FailedChunkRows("create")) + Cardinality(FailedChunkRows("update"))
    /\ BatchResult(frame).new = Cardinality(CreateAnswered("id"))
    /\ BatchResult(frame).updated = Cardinality(UpdateSucceeded)

\* C18 happens: in update mode the first create sub-chunk of a batch failed as
\* a whole and the second was sent and created its product
C18_Witness ==
  /\ ~skip_existing
  /\ pc = "tally"
  /\ \E a, b \in CallsOf("create") :
       a < b /\ ~calls[a].ok /\ calls[b].ok /\ calls[b].results = << "id" >>
  /\ BatchResult(frame).errors = 1
  /\ BatchResult(frame).new = 1

\* the rows of the batch started last, by the run log
CurrentRows ==
  IF EventsOf("batch") = {} THEN {}
  ELSE LET last == CHOOSE k \in EventsOf("batch") : \A j \in EventsOf("batch") : j <= k
           start == events[last].start
       IN (start + 1)..Min(start + BatchSize, Len(df))

\* the remote call is about a row of the set
CallWithin(call, rows) ==
  CASE call.op = "image" -> \E r \in rows : df[r].SKU = call.sku
    [] call.op \in { "create", "update" } ->
         \A j \in 1..Len(call.items) : call.items[j].row \in rows
    [] call.op \in { "search", "ghost" } -> call.row \in rows
    [] call.op = "assign" ->
         \E r \in rows : call.id \in { NewProductId(r), RemoteProductId(df[r].SKU) }
    [] OTHER -> FALSE

\* C19: batches are processed one after the other in input order: batch
\* starts grow by the batch size, a batch is started only after the pass of
\* the batch before it has ended with its progress report, every call and
\* every pending task of a batch in progress is about a row of that batch,
\* and outside a batch no call and no task is outstanding.
C19_BatchesSequential ==
  /\ \A a, b \in EventsOf("batch") :
       a < b =>
         /\ events[a].start < events[b].start
         /\ \E p \in EventsOf("progress") :
              /\ a < p /\ p < b
              /\ events[p].current = Min(events[a].start + BatchSize, Len(df))
  /\ \A k \in 1..Len(calls) : CallWithin(calls[k], CurrentRows)
  /\ frame.pending \subseteq CurrentRows
  /\ Range(frame.rows) \subseteq CurrentRows
  /\ pc \in InBatch \cup { "tally" } =>
       Cardinality(EventsOf("progress")) = Cardinality(EventsOf("batch")) - 1
  /\ pc \notin InBatch \cup { "tally" } =>
       /\ calls = << >>
       /\ frame = NoFrame
       /\ Cardinality(EventsOf("progress")) = Cardinality(EventsOf("batch"))

\* C19 happens: the second batch of a run has issued its calls after the
\* first one ended
C19_Witness ==
  /\ pc = "tally"
  /\ Cardinality(EventsOf("batch")) = 2
  /\ CallsOf("image") # {}
  /\ CallsOf("create") # {}
  /\ CallsOf("assign") # {}

\* the call found on the server a file of the size of the local one, was not
\* forced and had all its SFTP requests answered
SameSizeCall(u) ==
  /\ ~u.force_upload
  /\ ~u.fault
  /\ u.local_size # NoSize
  /\ u.before = u.local_size

C21_AiCallTerminates ==
  /\ [](/\ ai.pc \in { "idle", "attempt", "returned" }
        /\ ai.requests <= ai.max_retries + 1
        /\ ai.pc = "returned" =>
             (ai.returned = "data" <=> ai.last \in { "json", "json_repaired" }))
  /\ (ai.pc = "attempt" ~> ai.pc = "returned")

\* C21 happens: every attempt of a call met a connection error, max_retries + 1
\* requests were issued and None was returned
C21_Witness ==
  /\ ai.pc = "returned"
  /\ ai.max_retries = MaxRetries
  /\ ai.requests = MaxRetries + 1
  /\ ai.stats.retries = MaxRetries
  /\ ai.last = "transient"
  /\ ai.returned = None

\* the progress reports that follow the batch started at position b of the
\* run log and precede the next batch start
ReportsOf(b) ==
  { p \in EventsOf("progress") :
      /\ b < p
      /\ \A c \in EventsOf("batch") : c > b => p < c }

\* C22: every batch that was started and has ended (returned or raised) is
\* followed by exactly one progress report, whose current is the index of the
\* last row of the batch and whose total is the number of rows; a batch in
\* progress has none yet; the reported values grow strictly, never exceed
\* total, and the last one equals total when the run returned unstopped.
C22_ProgressOncePerBatch ==
  /\ \A b \in EventsOf("batch") :
       LET in_progress == /\ pc \in InBatch \cup { "tally" }
                          /\ \A c \in EventsOf("batch") : c <= b
       IN /\ Cardinality(ReportsOf(b)) = IF in_progress THEN 0 ELSE 1
          /\ \A p \in ReportsOf(b) :
               /\ events[p].current = Min(events[b].start + BatchSize, Len(df))
               /\ events[p].total = Len(df)
  /\ \A p \in EventsOf("progress") :
       /\ \E b \in EventsOf("batch") : p \in ReportsOf(b)
       /\ events[p].current <= events[p].total
       /\ \A q \in EventsOf("progress") :
            p < q => events[p].current < events[q].current
  /\ (pc = "returned" /\ ~stop_requested /\ EventsOf("batch") # {}) =>
       \E p \in EventsOf("progress") :
         /\ events[p].current = Len(df)
         /\ \A q \in EventsOf("progress") : q <= p

\* C22 happens: a run of two batches, the first of which raised, returned
\* unstopped after two progress reports, the last one at total
C22_Witness ==
  /\ pc = "returned"
  /\ ~stop_requested
  /\ RaisedStarts = { 0 }
  /\ Cardinality(EventsOf("progress")) = 2
  /\ Len(df) = BatchSize + 1
  /\ \E p \in EventsOf("progress") : events[p].current = Len(df)

\* C23: within a batch each fan-out stage joins before the next starts: the
\* image calls come first and are all made before any payload is assembled, a
\* create request is sent only when no assembly task is pending, and an update
\* request only when no lookup is pending, after every search of the batch.
C23_StagesJoin ==
  /\ \A k \in CallsOf("image") : \A j \in 1..k : calls[j].op = "image"
  /\ pc = "images" => (calls = << >> /\ frame.products_to_process = << >>)
  /\ (frame.products_to_process # << >> \/ pc \in InBatch \ { "images" }) =>
       Cardinality(CallsOf("image")) = Len(ImageTasks(frame.rows, {}))
  /\ frame.pending # {} => (pc = "prepare" /\ CallsOf("create") = {})
  /\ CallsOf("create") # {} =>
       \A i \in PayloadRows :
         \E k \in 1..Len(frame.products_to_process) : frame.products_to_process[k].row = i
  /\ CallsOf("update") # {} =>
       /\ frame.lookup_pending = {}
       /\ Cardinality(CallsOf("search")) = Len(frame.products_to_update_data)
       /\ \A a \in CallsOf("search") : \A b \in CallsOf("update") : a < b

\* C23 happens: an update-mode batch of two rows went through two image
\* tasks, two assemblies, two lookups and an update request
C23_Witness ==
  /\ ~skip_existing
  /\ pc = "tally"
  /\ Cardinality(CallsOf("image")) = 2
  /\ Len(frame.products_to_process) = 2
  /\ Cardinality(CallsOf("search")) = 2
  /\ CallsOf("update") # {}

\* C24: from the end of the cache warm-up until the run returns, no step
\* changes existing_products_cache: no entry is added, removed or replaced.
C24_CacheReadOnlyAfterWarmUp ==
  [][pc \notin { "upload", "start" }
       => existing_products_cache' = existing_products_cache]_vars

\* C24 happens: a skip-mode batch run against a non-empty cache created a
\* product whose SKU is not in the cache
C24_Witness ==
  /\ skip_existing
  /\ pc = "tally"
  /\ existing_products_cache # EmptyMap
  /\ CreateAnswered("id") # {}
  /\ \A r \in CreateAnswered("id") : Lower(df[r].SKU) \notin DOMAIN existing_products_cache

\* C25: in skip-existing mode no create request carries a SKU for which an
\* earlier create request of the run was answered with a product id.
C25_CreatedSkuNotResubmitted ==
  skip_existing =>
    \A a, b \in CallsOf("create") :
      \A i \in 1..Len(calls[a].items) : \A j \in 1..Len(calls[b].items) :
        (a < b /\ calls[a].ok /\ calls[a].results[i] = "id")
          => Lower(calls[b].items[j].sku) # Lower(calls[a].items[i].sku)

\* create requests of the batch in progress that carry row r, with the place
\* of the row in the request
CreateSlots(r) ==
  { kj \in CallsOf("create") \X (1..ChunkSize) :
      kj[2] <= Len(calls[kj[1]].items) /\ calls[kj[1]].items[kj[2]].row = r }

Rejected == CreateAnswered("other") \cup CreateAnswered("neither")

\* rows the update path has taken: looked up by SKU or carried by an update
Searched == { calls[k].row : k \in CallsOf("search") }

\* C27: in update-existing mode only the items answered with a duplicate-SKU
\* error enter the update path; an item answered with another error, or with
\* neither id nor error, is never looked up nor sent in an update request, and
\* adds exactly one to the errors of the batch: the API errors counted are
\* these items, the items of the sub-chunks that failed as a whole and the
\* ghost SKUs, and the errors of the batch are them, the rows without SKU and
\* the duplicates that were not updated.
C27_OnlyDuplicatesAreUpdated ==
  ~skip_existing =>
    /\ Searched \cup UpdateSubmitted \subseteq CreateAnswered("duplicate")
    /\ Rejected \cap (Searched \cup UpdateSubmitted) = {}
    /\ Rejected \cap CreateAnswered("id") = {}
    /\ pc \in { "create", "assign_new", "lookup", "update", "assign_upd", "tally" } =>
         frame.api_errors_count
           = Cardinality(Rejected) + Cardinality(FailedChunkRows("create"))
             + Cardinality(Ghosts)
    /\ pc = "tally" =>
         UpdateBatchResult(frame).errors
           = Cardinality(NoSkuRows) + Cardinality(FailedChunkRows("create"))
             + Cardinality(Rejected) + Cardinality(Ghosts)
             + Cardinality(CreateAnswered("duplicate") \ UpdateSucceeded)

\* C27 happens: a batch of two rows, one answered with an error that is not a
\* duplicate SKU and one with neither id nor error, ended with two errors and
\* without a search or an update
C27_Witness ==
  /\ ~skip_existing
  /\ pc = "tally"
  /\ CreateAnswered("other") # {}
  /\ CreateAnswered("neither") # {}
  /\ UpdateBatchResult(frame).errors = 2
  /\ CallsOf("search") = {}
  /\ CallsOf("update") = {}

\* image-resolution tasks of the batch in progress for the given SKU
ImageCallsFor(sku) == { k \in CallsOf("image") : calls[k].sku = sku }

\* C28: a batch runs at most one image-resolution task per distinct SKU and
\* none for the empty SKU; once the image stage has ended every row with a SKU
\* has exactly one task, the rows sharing a SKU share it, and images_urls holds
\* for a SKU the URL its task returned and no entry when it returned none.
C28_OneImageTaskPerSku ==
  /\ \A a, b \in CallsOf("image") : calls[a].sku = calls[b].sku => a = b
  /\ \A a \in CallsOf("image") :
       /\ calls[a].sku # ""
       /\ \E r \in Range(frame.rows) : df[r].SKU = calls[a].sku
  /\ (pc \in InBatch \ { "images" } \/ pc = "tally") =>
       /\ \A r \in Range(frame.rows) \ NoSkuRows :
            Cardinality(ImageCallsFor(df[r].SKU)) = 1
       /\ \A a \in CallsOf("image") :
            IF calls[a].url = NoUrl THEN calls[a].sku \notin DOMAIN frame.images_urls
            ELSE /\ calls[a].sku \in DOMAIN frame.images_urls
                 /\ frame.images_urls[calls[a].sku] = calls[a].url
       /\ \A sku \in DOMAIN frame.images_urls : ImageCallsFor(sku) # {}

\* C28 happens: a batch of two rows with the same SKU ran one image task, which
\* returned a URL
C28_Witness ==
  /\ pc = "tally"
  /\ Len(frame.rows) = 2
  /\ \A r \in Range(frame.rows) : df[r].SKU = df[frame.rows[1]].SKU
  /\ NoSkuRows = {}
  /\ Cardinality(CallsOf("image")) = 1
  /\ \A a \in CallsOf("image") : calls[a].url # NoUrl

\* the products the batch in progress has created or updated, as the bulk
\* answers describe them
ProcessedProducts ==
  Range(frame.newly_created_products) \cup Range(frame.updated_products)

\* C29: every image assignment issued carries the id of a product the batch
\* created or updated and the URL that the image-resolution task of this batch
\* returned for the SKU of that product; the task had ended before the
\* assignment was issued.
C29_AssignedUrlIsOfTheSku ==
  \A a \in CallsOf("assign") :
    /\ calls[a].url # NoUrl
    /\ \E p \in ProcessedProducts : p.id = calls[a].id
    /\ \A p \in ProcessedProducts :
         p.id = calls[a].id =>
           \E i \in ImageCallsFor(p.sku) : i < a /\ calls[i].url = calls[a].url

\* C29 happens: a batch resolved the images of two different SKUs and assigned
\* an image to the product of each of them, whichever task ended first
C29_Witness ==
  /\ pc = "tally"
  /\ Cardinality({ calls[i].url : i \in CallsOf("image") }) = 2
  /\ Cardinality({ calls[a].url : a \in CallsOf("assign") }) = 2
  /\ Cardinality({ calls[a].id : a \in CallsOf("assign") }) = 2

\* every key of the cache is still there after the step, with the same id
Kept(cache, cache_after) ==
  \A key \in DOMAIN cache :
    key \in DOMAIN cache_after /\ cache_after[key] = cache[key]

\* C30: whatever the threads do and in whatever order, no step removes a key
\* from category_cache or brand_term_cache or replaces the id stored under it:
\* a lowercased name maps to at most one remote id for the rest of the run.
C30_TaxonomyCachesOnlyGrow ==
  [][/\ Kept(category_cache, category_cache')
     /\ Kept(brand_term_cache, brand_term_cache')]_vars

\* C30 happens: two threads resolved the same category over an empty cache;
\* one search was made, its match was stored, and both got the stored id
C30_Witness ==
  /\ \A w \in TaxWorkers :
       /\ tpc[w] = "idle"
       /\ targ[w].done = 1
       /\ targ[w].kind = "category"
  /\ "pumps" \in DOMAIN category_cache
  /\ TermCallCount("search", "category", "pumps") = 1
  /\ TermCallCount("create", "category", "pumps") = 0
  /\ { t.id : t \in { u \in tret : u.kind = "category" } } = { category_cache["pumps"] }

\* threads inside the with-block of the lock of a kind
InLockedSection(kind) ==
  { w \in TaxWorkers : tpc[w] \in { "recheck", "search", "create" } /\ targ[w].kind = kind }

\* C31: for each kind at most one thread is inside the section guarded by the
\* lock of the kind, and it is the thread that holds the lock; a thread that
\* is about to issue the remote search or create has tested the cache under
\* the lock and found the key absent, and the key is still absent.
C31_TaxonomySectionExclusive ==
  \A kind \in { "category", "brand" } :
    /\ Cardinality(InLockedSection(kind)) <= 1
    /\ \A w \in InLockedSection(kind) : lock_owner[kind] = w
    /\ InLockedSection(kind) = {} => lock_owner[kind] = 0
    /\ \A w \in InLockedSection(kind) :
         tpc[w] \in { "search", "create" } => Lower(targ[w].name) \notin DOMAIN TermCache(kind)

\* C31 happens: one thread is at the remote search for a category while the
\* other, which missed the cache for the same category, waits for the lock
C31_Witness ==
  \E w, v \in TaxWorkers :
    /\ w # v
    /\ tpc[w] = "search"
    /\ tpc[v] = "acquire"
    /\ targ[w].kind = "category"
    /\ targ[v] = [targ[w] EXCEPT !.done = targ[v].done]

\* is every term of the list in the cache under its trimmed, lowercased name
\* with its id
AllCached(terms, cache) ==
  \A k \in 1..Len(terms) :
    /\ Lower(Strip(terms[k].name)) \in DOMAIN cache
    /\ cache[Lower(Strip(terms[k].name))] = terms[k].id

\* C32: after a pre-warm whose two listings were both answered with success,
\* every category term and every brand term the remote holds is in its cache
\* under its trimmed, lowercased name with its remote id, however many terms
\* the remote holds.
C32_PreWarmCachesEveryTerm ==
  (warm.pc = "done" /\ warm.categories_ok /\ warm.brands_ok)
    => /\ AllCached(warm.categories, category_cache)
       /\ AllCached(warm.brands, brand_term_cache)

\* C32 happens: both listings succeeded, the remote holds more category terms
\* than one page, and the terms beyond the first page are in no cache
C32_Witness ==
  /\ warm.pc = "done"
  /\ warm.categories_ok
  /\ warm.brands_ok
  /\ Len(warm.categories) > PerPage
  /\ AllCached(FirstPage(warm.categories), category_cache)
  /\ Cardinality(DOMAIN category_cache) = PerPage
  /\ AllCached(warm.brands, brand_term_cache)

\* the lowercased, trimmed SKUs of the received products that have a SKU and,
\* under a non-empty filter, a brand attribute whose lowercased value is in the
\* filter
ExpectedKeys(received, brand_filters) ==
  { Lower(Strip(p.sku)) :
      p \in { q \in received :
                /\ Strip(q.sku) # ""
                /\ brand_filters # {} =>
                     (q.brand # None /\ Lower(Strip(q.brand)) \in brand_filters) } }

\* C33: a cache build that succeeds leaves in the cache exactly the received
\* products that have a non-empty SKU and, when the filter is not empty, a
\* brand attribute value that is in the filter when lowercased; each is stored
\* under its trimmed, lowercased SKU.
C33_CacheHoldsFilteredListing ==
  [][(IsLoadStep /\ ~cache_loaded /\ events'[Len(events) + 1].ok)
       => LET received == events'[Len(events) + 1].received
          IN /\ cache_loaded'
             /\ DOMAIN existing_products_cache'
                  = ExpectedKeys(received, BrandFilters(df))
             /\ \A key \in DOMAIN existing_products_cache' :
                  /\ existing_products_cache'[key] \in received
                  /\ Lower(Strip(existing_products_cache'[key].sku)) = key]_vars

\* C33 happens: a build under the filter {acme} received four products and
\* kept the two whose brand is Acme or acme
C33_Witness ==
  /\ BrandFilters(df) = { "acme" }
  /\ cache_loaded
  /\ DOMAIN existing_products_cache = { "a1", "b1" }
  /\ \E k \in LoadCalls :
       /\ events[k].ok
       /\ ~events[k].loaded
       /\ Cardinality(events[k].received) = 4

\* the batches of the run that have ended: each ends with its progress report
Ended == EventsOf("progress")

\* C34: every batch that has ended and did not reach the end of the input is
\* followed at once by exactly one pause, a batch that reached the end of the
\* input by none; a pause occurs nowhere else, and every pause is of
\* PauseSeconds, whether the batch before it returned or raised.
C34_OnePauseBetweenBatches ==
  /\ \A k \in Ended :
       IF events[k].current < total_products
       THEN /\ k < Len(events)
            /\ events[k + 1].op = "sleep"
            /\ k + 2 <= Len(events) => events[k + 2].op # "sleep"
       ELSE k = Len(events) \/ events[k + 1].op # "sleep"
  /\ \A k \in EventsOf("sleep") :
       /\ k > 1
       /\ events[k - 1].op = "progress"
       /\ events[k].seconds = PauseSeconds
  /\ Cardinality(EventsOf("sleep"))
       = Cardinality({ k \in Ended : events[k].current < total_products })

\* C34 happens: a run of two batches has returned; the first batch raised and
\* was followed by the pause, the second returned and was followed by none
C34_Witness ==
  /\ pc = "returned"
  /\ Cardinality(EventsOf("batch")) = 2
  /\ Cardinality(EventsOf("raised")) = 1
  /\ \E k \in EventsOf("raised") : events[k].start = 0
  /\ Cardinality(EventsOf("sleep")) = 1
  /\ events[Len(events)].op # "sleep"

\* C35: whenever a batch is processed in skip-existing mode and no listing
\* request of the call failed, a listing of the products was made on this
\* uploader object, in this call or in an earlier one.  (The claim says more:
\* that the cache holds the result of a complete listing.)
C35_SkipModeCacheComesFromListing ==
  (skip_existing /\ pc \in InBatch /\ \A k \in EventsOf("list") : events[k].ok)
    => (events[1].built \/ EventsOf("list") # {})

\* C35 happens: the second call on the object, in skip-existing mode after a
\* call in update-existing mode, processes a batch with an empty cache that
\* no listing filled
C35_Witness ==
  /\ events[1].runs = 1
  /\ ~events[1].built
  /\ skip_existing
  /\ pc \in InBatch
  /\ cache_loaded
  /\ existing_products_cache = EmptyMap
  /\ EventsOf("list") = {}

\* the call in progress has entered batch_process_products and returned from it
BatchProcessReturned ==
  /\ pc = "returned"
  /\ EventsOf("list") # {} \/ "new" \in DOMAIN result

\* C36: the stop flag is sticky.  In a call made on an object on which
\* stop_upload was called during an earlier call, the flag is still set, no
\* batch is started, and batch_process_products returns either the dictionary
\* of a failed cache build (skip-existing mode, errors = 1) or all counters at
\* zero.
C36_StopFlagIsSticky ==
  events[1].stopped =>
    /\ stop_requested
    /\ EventsOf("batch") = {}
    /\ calls = << >>
    /\ BatchProcessReturned =>
         \/ /\ result = CacheFailureResult
            /\ skip_existing
            /\ ~cache_loaded
         \/ result = [success |-> TRUE, uploaded |-> 0, new |-> 0, updated |-> 0,
                      skipped |-> 0, errors |-> 0, total |-> total_products]

\* C36 happens: a call on a stopped object, over a DataFrame with a row,
\* returned from batch_process_products with every counter at zero
C36_Witness ==
  /\ events[1].stopped
  /\ BatchProcessReturned
  /\ Len(df) > 0
  /\ "new" \in DOMAIN result
  /\ result.errors = 0
  /\ result.total = Len(df)

\* C36 as stated: every call of batch_process_products made after stop_upload
\* returns all counters at zero
C36_StoppedCallReturnsZeros ==
  (events[1].stopped /\ BatchProcessReturned)
    => /\ result.uploaded = 0
       /\ result.errors = 0
       /\ Count(result, "new") = 0
       /\ Count(result, "updated") = 0
       /\ Count(result, "skipped") = 0

\* the main SFTP connection was opened by this call of upload_products
SftpOpened == \E k \in EventsOf("sftp_connect") : events[k].ok

\* the main SFTP connection is open: opened and not disconnected since
SftpStillOpen ==
  \E k \in EventsOf("sftp_connect") :
    /\ events[k].ok
    /\ \A j \in EventsOf("sftp_disconnect") : j < k

\* C37: when upload_products has returned after opening the main SFTP
\* connection, the connection has been disconnected.
C37_SftpDisconnectedOnReturn ==
  (pc = "returned" /\ SftpOpened) => ~SftpStillOpen

\* C37 happens: upload_products has returned the summary of a run that
\* processed all its batches, and the main SFTP connection is still open
C37_Witness ==
  /\ pc = "returned"
  /\ ~stop_requested
  /\ "new" \in DOMAIN result
  /\ Len(df) > 0
  /\ EventsOf("batch") # {}
  /\ SftpStillOpen

\* the locks thread w holds
LocksHeld(w) == { kind \in { "category", "brand" } : lock_owner[kind] = w }

\* C38: a thread never holds the two locks together, holds a lock only while
\* it is inside the with-block of the resolver of that kind, and having
\* acquired a lock always comes to return from the resolver with the lock
\* released, whatever the remote answers.
C38_TaxonomyLocksAlwaysReleased ==
  /\ [](\A w \in TaxWorkers :
          /\ Cardinality(LocksHeld(w)) <= 1
          /\ tpc[w] \in { "idle", "outer", "acquire" } => LocksHeld(w) = {}
          /\ tpc[w] \in { "recheck", "search", "create" } => LocksHeld(w) = { targ[w].kind })
  /\ \A w \in TaxWorkers :
       (tpc[w] \in { "recheck", "search", "create" })
         ~> (tpc[w] = "idle" /\ LocksHeld(w) = {})

\* C38 happens: a resolver whose create raised has returned and both locks
\* are free
C38_Witness ==
  /\ \E c \in term_calls : c.op = "create" /\ c.resp = "exception"
  /\ \A w \in TaxWorkers : tpc[w] = "idle" /\ LocksHeld(w) = {}
  /\ \A w \in TaxWorkers : targ[w].done >= 1

\* the step is the last allowed attempt of a call (attempt index max_retries)
\* failing in one of the given ways and the call returning None
LastAttemptFails(kinds) ==
  /\ ai.pc = "attempt"
  /\ ai.retry = ai.max_retries
  /\ ai'.pc = "returned"
  /\ ai'.returned = None
  /\ ai'.last \in kinds

\* C39: when the last allowed attempt of a call fails (timeout or connection
\* error, retryable HTTP status, empty content, invalid JSON) and the call
\* returns None, that step adds exactly one to stats['failed_after_retries'];
\* a step that returns a parsed response leaves the counter alone.
C39_FailedAfterRetriesCounted ==
  [][/\ LastAttemptFails({ "transient", "status_retryable", "empty", "json_broken" })
          => ai'.stats.failed_after_retries = ai.stats.failed_after_retries + 1
     /\ (ai.pc = "attempt" /\ ai'.returned = "data")
          => ai'.stats.failed_after_retries = ai.stats.failed_after_retries]_vars

\* C39 happens: the only call made so far used up its attempts, the last one
\* met a retryable HTTP status, the call returned None and the counter is 0
C39_Witness ==
  /\ ai.pc = "returned"
  /\ ai.ncalls = 1
  /\ ai.returned = None
  /\ ai.retry = ai.max_retries
  /\ ai.max_retries > 0
  /\ ai.last = "status_retryable"
  /\ ai.stats.failed_after_retries = 0

====
